---- MODULE Spec2Model ----
(***************************************************************************)
(* The ingestion pipeline of deal_finder as a state machine:               *)
(*   - the Content Store  (deal_finder/storage/content_cache.py),          *)
(*   - the vector index   (deal_finder/storage/article_cache_chroma.py),   *)
(*   - the Embedding Indexer (deal_finder/storage/embedding_service.py),   *)
(*   - the Crawl Index    (deal_finder/discovery/url_index.py) and         *)
(*     crawl_all_sites    (deal_finder/discovery/exhaustive_crawler.py).   *)
(*                                                                         *)
(* Specifications:                                                         *)
(*   Spec       writers and the indexer interleave at every commit;        *)
(*   SpecSeq    writers act only while no indexer run is in progress;      *)
(*   SpecQuiet  SpecSeq without process crashes;                           *)
(*   SpecBatch  ContentCache.upsert_batch statement by statement;          *)
(*   SpecIndex  URLIndex and crawl_all_sites;                              *)
(*   SpecBuild  build_cache of step1_build_cache_chroma.py;                *)
(*   SpecLeaf   the <url> loop of one leaf sitemap;                        *)
(*   SpecWalk   the recursion of _fetch_sitemap over sitemap indexes;      *)
(*   SpecSite   crawl_site and its RSS fallback;                           *)
(*   SpecFetch  WebClient.fetch under its retry decorator;                 *)
(*   SpecCrawl  the worker threads of crawl_and_store (scripts/crawl.py);  *)
(*   SpecDedup  deduplicate_by_title / TitleDeduplicator.deduplicate;      *)
(*   SpecRecords  Deduplicator.deduplicate over a list of deals;           *)
(*   SpecPair   the canonical keys and the merge of two deals;             *)
(*   SpecStore  the ContentCache methods called in any sequence;           *)
(*   SpecQuietFair  SpecQuiet with a run that keeps taking steps.          *)
(***************************************************************************)
EXTENDS Integers, Sequences, FiniteSets, TLC

\* ------------------------------------------------------------------ bounds
NumUrls == 2          \* distinct article URLs
MaxBatchSize == 2     \* largest batch_size / max_articles argument tried
MaxArticles == 2      \* longest list handed to one atomic upsert_batch call
MaxCap == 1           \* largest max_articles / max_retries argument tried
MaxList == 4          \* longest list handed to upsert_batch in SpecBatch
NumSites == 2         \* entries of PRIORITY_SITES that crawl_all_sites walks
NumDocs == 3          \* sitemap documents of one site
MaxChildren == 2      \* <sitemap> entries of one sitemap-index document
MaxFanout == 2        \* largest max_subsitemaps tried
MaxEntries == 2       \* <url> entries of one leaf sitemap
MaxFeeds == 2         \* entries of one site's rss_feeds
MaxJobs == 2          \* longest urls_to_fetch handed to the parallel fetch
MaxWorkers == 2       \* largest max_workers tried
NumSources == 2       \* distinct 'source' values among the URLs
MaxPerSource == 1     \* largest max_concurrent_per_source tried
MaxCheckpoint == 2    \* largest checkpoint_every tried
NumKinds == 3         \* distinct (title, content) pairs among the articles
MaxItems == 3         \* longest list handed to the near-duplicate collapser
NumStems == 1         \* distinct company names up to their spelling
MaxDeals == 3         \* longest list handed to Deduplicator.deduplicate
MaxDate == 4          \* announcement dates are the days 0..MaxDate
MaxValue == 1         \* total_deal_value_usd is absent (0) or 1..MaxValue
MaxDay == 1           \* days are 0..MaxDay
TicksPerDay == 2      \* instants told apart within one day; 0 is midnight UTC

URLs == 1..NumUrls
Contents == {"", "v1"}     \* "" is a row whose content is missing
NULL == "NULL"

Min(a, b) == IF a <= b THEN a ELSE b
Max(a, b) == IF a >= b THEN a ELSE b

\* ------------------------------------------------------------ state
VARIABLES
    db,               \* articles table, committed rows: URL -> row
    chroma,           \* the collection: URL -> document content, or NoDoc
    pc,               \* position of the indexer process
    batch_size,       \* process_pending_articles arguments
    max_articles,     \*   0 stands for None
    via_retry,        \* the run was started by retry_failed_articles
    pending_count,    \* locals of process_pending_articles
    total_to_process,
    processed,
    succeeded,
    failed,
    articles,         \* locals of _process_batch
    valid_articles,
    i,                \*   index of the validation loop
    j,                \*   index of the per-article retry loop
    b_succeeded,
    b_failed,
    batch_raised,     \*   the batch upsert raised (the except branch runs)
    \* observations about the history, read only by the properties
    resumed,          \* a crash happened and no run has completed since
    crash_pending,    \* the URLs pending at that crash and not marked since
    after_run,        \* "full"/"capped": a run just completed, store untouched since
    second_of,        \* after_run as it was when the current run started
    prev_count,       \* collection count when the previous run completed
    reset_urls,       \* rows the current retry run reset from failed
    ok_urls,          \* URLs whose upsert into the collection succeeded in this run
    raised_urls       \* URLs whose individual upsert raised in this run

VARIABLES
    \* ContentCache.upsert_batch, statement by statement (SpecBatch)
    txn,              \* the table as the writer's connection sees it: db plus
                      \*   the rows of its open transaction
    ub_pc,            \* position inside upsert_batch
    ub_articles,      \* its arguments
    ub_batch_size,
    ub_i,             \* articles the loop has gone through
    ub_inserted       \* the count it returns

VARIABLES
    \* URLIndex and ExhaustiveSiteCrawler.crawl_all_sites (SpecIndex)
    index_file,       \* output/url_index.json
    crawled_urls,     \* URLIndex.crawled_urls of the live index object
    url_metadata,     \* URLIndex.url_metadata, as the set of URLs whose entry
                      \*   json.dump cannot serialise
    cpc,              \* position inside crawl_all_sites
    use_index,
    site,             \* the next site of PRIORITY_SITES
    all_articles,     \* locals of crawl_all_sites
    seen_urls,
    \* observations
    marked,           \* URLs marked on the live index object and not reset since
    saved_marked,     \* the marked URLs the file holds since the last save
    index_at_start,   \* crawled_urls when the current crawl started
    offered,          \* URLs the sites returned during the current crawl
    site_new,         \* URLs the latest turn of the site loop marked
    ix_last           \* the last index operation

VARIABLES
    \* build_cache of step1_build_cache_chroma.py (SpecBuild)
    bpc,              \* position inside build_cache
    urls_to_fetch,    \* URLs still to fetch
    fetched,          \* the articles list
    skipped           \* skipped[0]

VARIABLES
    \* the leaf-sitemap loop of _fetch_sitemap / _fetch_sitemap_selenium (SpecLeaf)
    lf_filters,       \* the site's compiled filters, each pattern list as the
                      \*   set of URLs one of its patterns matches
    lf_from,          \* self.from_date, self.to_date as days
    lf_to,
    lf_path,          \* "requests" or "selenium"
    lf_pc,
    lf_articles,      \* the articles list
    lf_n,             \* entries gone through
    lf_expected       \* URLs of the entries that pass the three conditions

VARIABLES
    \* ExhaustiveSiteCrawler.crawl_site (SpecSite)
    cs_pc,            \* position inside crawl_site
    cs_sitemap,       \* site_config.get('sitemap') is set
    cs_feeds,         \* len(site_config.get('rss_feeds', []))
    cs_walk,          \* what _fetch_sitemap returned to this call
    cs_articles,      \* all_articles of crawl_site, each entry with the
                      \*   mechanism it came from
    cs_seen,          \* seen_urls of crawl_site
    cs_feed,          \* feeds of the fallback loop already requested
    cs_requests       \* _fetch_rss_feed calls made by this call

VARIABLES
    \* WebClient.fetch under its @retry decorator (SpecFetch)
    wf_pc,            \* position inside the decorated call
    wf_robots,        \* the respect_robots argument
    wf_attempt,       \* tenacity's attempt_number
    wf_outcomes,      \* outcome of every session.get of this call, in order
    wf_slept,         \* seconds waited before each retry, in order
    wf_result         \* how the call ended

VARIABLES
    \* the parallel fetch of crawl_and_store in scripts/crawl.py (SpecCrawl)
    cr_pc,            \* position of the main thread
    cr_urls,          \* urls_to_fetch: the source of every URL, in order
    max_workers,
    max_concurrent_per_source,
    checkpoint_every,
    cr_at,            \* per URL: how far its fetch_article call has got
    cr_failed,        \* per URL: its fetch met a failure
    cr_result,        \* per URL: what its future holds
    source_counts,
    web_pool,         \* clients in the pool
    fetched_articles, \* URLs (positions in urls_to_fetch) awaiting a commit
    fetched_count,
    skipped_count,
    cr_stored         \* URLs handed to cache.upsert_batch

VARIABLES
    \* deduplicate_by_title / TitleDeduplicator.deduplicate (SpecDedup)
    dd_pc,            \* position inside the call
    dd_articles,      \* the articles argument, each article by its kind
    dd_near,          \* pairs of kinds whose embeddings are more similar
                      \*   than the threshold
    dd_i,             \* the loop index i (1-based)
    dd_seen,          \* seen
    final_articles,   \* final_articles, as positions of dd_articles
    dd_groups         \* the groups the loop has formed so far, each with the
                      \*   longest_idx chosen for it

VARIABLES
    \* Deduplicator.deduplicate (SpecRecords)
    rd_pc,            \* position inside the call
    rd_deals,         \* the deals argument
    rd_k,             \* position of the loop "for deal in deals"
    unique_deals      \* unique_deals

VARIABLES
    \* generate_canonical_key, is_duplicate and merge_duplicates applied to
    \* two deals (SpecPair)
    pk_pc,
    pk_deal1,         \* the existing deal, with its canonical key
    pk_deal2,         \* the new deal, with its canonical key
    pk_merged         \* what merge_duplicates(deal1, deal2) returned

VARIABLES
    \* the recursion of _fetch_sitemap over sitemap-index documents (SpecWalk)
    wk_pc,
    wk_max,           \* site_config['max_subsitemaps']
    wk_served,        \* what the site serves for each document fetched so far
    wk_stack,         \* the _fetch_sitemap calls expanding a sitemap index
    wk_call,          \* the document the call being made is for, 0 if none
    wk_fetches,       \* sub-sitemap documents requested during this walk
    wk_overflow       \* a call has ended in RecursionError

storeVars == <<db, chroma>>
siteVars == <<cs_pc, cs_sitemap, cs_feeds, cs_walk, cs_articles, cs_seen, cs_feed, cs_requests>>

fetchVars == <<wf_pc, wf_robots, wf_attempt, wf_outcomes, wf_slept, wf_result>>

crawlVars == <<cr_pc, cr_urls, max_workers, max_concurrent_per_source, checkpoint_every, cr_at, cr_failed, cr_result, source_counts, web_pool, fetched_articles, fetched_count, skipped_count, cr_stored>>

dedupVars == <<dd_pc, dd_articles, dd_near, dd_i, dd_seen, final_articles, dd_groups>>

recordVars == <<rd_pc, rd_deals, rd_k, unique_deals>>

pairVars == <<pk_pc, pk_deal1, pk_deal2, pk_merged>>

walkVars == <<wk_pc, wk_max, wk_served, wk_stack, wk_call, wk_fetches, wk_overflow>>
leafVars == <<lf_filters, lf_from, lf_to, lf_path, lf_pc, lf_articles, lf_n, lf_expected>>
buildVars == <<bpc, urls_to_fetch, fetched, skipped>>
ubVars == <<txn, ub_pc, ub_articles, ub_batch_size, ub_i, ub_inserted>>
ixVars == <<index_file, crawled_urls, url_metadata, cpc, use_index, site, all_articles, seen_urls>>
ixObs == <<marked, saved_marked, index_at_start, offered, site_new, ix_last>>
runVars == <<pc, batch_size, max_articles, via_retry, pending_count,
             total_to_process, processed, succeeded, failed>>
batVars == <<articles, valid_articles, i, j, b_succeeded, b_failed, batch_raised>>
crashObs == <<resumed, crash_pending>>
runObs == <<after_run, second_of, prev_count, reset_urls, ok_urls, raised_urls>>
obsVars == <<crashObs, runObs>>
vars == <<storeVars, runVars, batVars, obsVars, ubVars, ixVars, ixObs, buildVars, leafVars, walkVars, siteVars, fetchVars, crawlVars, dedupVars, recordVars, pairVars>>

\* ------------------------------------------------------------ Content Store
NoRow == [content |-> "", fetched_at |-> 0, embedding_status |-> "absent",
          embedded_at |-> NULL, error_message |-> NULL]
NoDoc == "no document"

Present(d) == {u \in DOMAIN d : d[u].embedding_status # "absent"}

\* fetched_at is only ever compared (ORDER BY fetched_at ASC), so a timestamp
\* is held as its rank among the timestamps stored: 1 is the oldest.
Rank(d, t) == Cardinality({d[v].fetched_at : v \in {w \in Present(d) : d[w].fetched_at < t}}) + 1

Normalize(d) ==
    [u \in DOMAIN d |-> IF u \in Present(d)
                    THEN [d[u] EXCEPT !.fetched_at = Rank(d, d[u].fetched_at)]
                    ELSE d[u]]

\* datetime.now(): later than every timestamp stored
Now(d) == Cardinality({d[v].fetched_at : v \in Present(d)}) + 1

\* an upsert whose ON CONFLICT clause leaves embedding_status, embedded_at and
\* error_message as they are
UpsertRowKeepStatus(d, u, c, t) ==
    IF u \in Present(d)
    THEN [d EXCEPT ![u].content = c, ![u].fetched_at = t]
    ELSE [d EXCEPT ![u] = [content |-> c, fetched_at |-> t, embedding_status |-> "pending",
                           embedded_at |-> NULL, error_message |-> NULL]]

\* INSERT ... ON CONFLICT(url) DO UPDATE SET ..., embedding_status = 'pending',
\* embedded_at = NULL, error_message = NULL
UpsertRow(d, u, c, t) ==
    [d EXCEPT ![u] = [content |-> c, fetched_at |-> t, embedding_status |-> "pending",
                      embedded_at |-> NULL, error_message |-> NULL]]

upsert_article(d, u, c) == Normalize(UpsertRow(d, u, c, Now(d)))

\* the statements of upsert_batch over a list of articles, one fetched_at for all
RECURSIVE InsertAll(_, _, _)
InsertAll(d, arts, t) ==
    IF arts = <<>> THEN d
    ELSE InsertAll(UpsertRow(d, Head(arts).url, Head(arts).content, t), Tail(arts), t)

PendingUrls(d) == {u \in DOMAIN d : d[u].embedding_status = "pending"}
FailedUrls(d) == {u \in DOMAIN d : d[u].embedding_status = "failed"}

\* get_stats()['by_status'].get('pending', 0)
PendingCount(d) == Cardinality(PendingUrls(d))

\* the orders SELECT ... WHERE embedding_status = 'pending' ORDER BY fetched_at ASC
\* may return: rows with equal fetched_at come in any order
PendingOrders(d) ==
    LET P == PendingUrls(d)
        n == Cardinality(P)
    IN {s \in [1..n -> P] :
            \A a, b \in 1..n : a < b => /\ s[a] # s[b]
                                         /\ d[s[a]].fetched_at <= d[s[b]].fetched_at}

\* the same query without its WHERE embedding_status = 'pending'
get_all_articles(d, limit, offset) ==
    LET P == Present(d)
        n == Cardinality(P)
        orders == {s \in [1..n -> P] :
                      \A a, b \in 1..n : a < b => /\ s[a] # s[b]
                                                   /\ d[s[a]].fetched_at <= d[s[b]].fetched_at}
        m == IF limit # 0 THEN Max(0, Min(limit, n - offset)) ELSE n
        o == IF limit # 0 THEN offset ELSE 0
    IN {[k \in 1..m |-> [url |-> s[k + o], content |-> d[s[k + o]].content]] : s \in orders}

\* get_pending_articles(limit, offset): the possible results; limit 0 is None
get_pending_articles(d, limit, offset) ==
    LET n == PendingCount(d)
        m == IF limit # 0 THEN Max(0, Min(limit, n - offset)) ELSE n
        o == IF limit # 0 THEN offset ELSE 0
    IN {[k \in 1..m |-> [url |-> s[k + o], content |-> d[s[k + o]].content]] :
            s \in PendingOrders(d)}

\* a mark that writes nothing when success is False
mark_embedded_success_only(d, u, success, err) ==
    IF u \in Present(d) /\ success
    THEN [d EXCEPT ![u].embedding_status = "embedded",
                   ![u].embedded_at = "set",
                   ![u].error_message = err]
    ELSE d

\* UPDATE articles SET embedding_status, embedded_at, error_message WHERE url = ?
mark_embedded(d, u, success, err) ==
    IF u \in Present(d)
    THEN [d EXCEPT ![u].embedding_status = IF success THEN "embedded" ELSE "failed",
                   ![u].embedded_at = "set",
                   ![u].error_message = err]
    ELSE d

\* a batch update that sets embedded_at and leaves embedding_status as it is
mark_embedded_at_only(d, urls, success) ==
    [u \in DOMAIN d |-> IF u \in urls /\ u \in Present(d)
                    THEN [d[u] EXCEPT !.embedded_at = "set"]
                    ELSE d[u]]

\* UPDATE articles SET embedding_status, embedded_at WHERE url IN (...)
mark_embedded_batch(d, urls, success) ==
    [u \in DOMAIN d |-> IF u \in urls /\ u \in Present(d)
                    THEN [d[u] EXCEPT !.embedding_status = IF success THEN "embedded" ELSE "failed",
                                      !.embedded_at = "set"]
                    ELSE d[u]]

\* a reset without its WHERE embedding_status = 'failed'
reset_all_to_pending(d) ==
    [u \in DOMAIN d |-> IF u \in Present(d)
                    THEN [d[u] EXCEPT !.embedding_status = "pending",
                                      !.embedded_at = NULL,
                                      !.error_message = NULL]
                    ELSE d[u]]

\* a reset that leaves error_message as it is
reset_failed_keep_error(d) ==
    [u \in DOMAIN d |-> IF d[u].embedding_status = "failed"
                    THEN [d[u] EXCEPT !.embedding_status = "pending",
                                      !.embedded_at = NULL]
                    ELSE d[u]]

\* UPDATE articles SET embedding_status = 'pending', embedded_at = NULL,
\* error_message = NULL WHERE embedding_status = 'failed'
reset_failed_to_pending(d) ==
    [u \in DOMAIN d |-> IF d[u].embedding_status = "failed"
                    THEN [d[u] EXCEPT !.embedding_status = "pending",
                                      !.embedded_at = NULL,
                                      !.error_message = NULL]
                    ELSE d[u]]

\* ------------------------------------------------------------ vector index
\* collection.upsert(ids, documents, metadatas): one document per id
ChromaUpsert(col, arts) ==
    [u \in URLs |-> IF \E k \in 1..Len(arts) : arts[k].url = u
                    THEN LET last == CHOOSE k \in 1..Len(arts) :
                                        /\ arts[k].url = u
                                        /\ \A m \in 1..Len(arts) : arts[m].url = u => m <= k
                         IN arts[last].content
                    ELSE col[u]]

ChromaCount(col) == Cardinality({u \in URLs : col[u] # NoDoc})

UrlsOf(arts) == {arts[k].url : k \in 1..Len(arts)}

\* ------------------------------------------------------------ initial state
IdleRun ==
    /\ pc = "idle"
    /\ batch_size = 0 /\ max_articles = 0 /\ via_retry = FALSE
    /\ pending_count = 0 /\ total_to_process = 0
    /\ processed = 0 /\ succeeded = 0 /\ failed = 0

NoBatch ==
    /\ articles = <<>> /\ valid_articles = <<>>
    /\ i = 0 /\ j = 0 /\ b_succeeded = 0 /\ b_failed = 0
    /\ batch_raised = FALSE

InitIndexer ==
    /\ chroma = [u \in URLs |-> NoDoc]
    /\ IdleRun
    /\ NoBatch
    /\ resumed = FALSE /\ crash_pending = {}
    /\ after_run = "none" /\ second_of = "none" /\ prev_count = 0
    /\ reset_urls = {} /\ ok_urls = {} /\ raised_urls = {}

InitBatch ==
    /\ txn = <<>>
    /\ ub_pc = "idle"
    /\ ub_articles = <<>> /\ ub_batch_size = 0
    /\ ub_i = 0 /\ ub_inserted = 0

InitIndex ==
    /\ index_file = [state |-> "missing", urls |-> {}]
    /\ crawled_urls = {} /\ url_metadata = {}
    /\ cpc = "idle"
    /\ use_index = FALSE
    /\ site = 0
    /\ all_articles = <<>> /\ seen_urls = {}
    /\ marked = {} /\ saved_marked = {} /\ index_at_start = {} /\ offered = {}
    /\ site_new = {}
    /\ ix_last = "none"

InitBuild ==
    /\ bpc = "idle"
    /\ urls_to_fetch = <<>> /\ fetched = <<>>
    /\ skipped = 0

NoFilters == [block |-> {}, has_allow |-> FALSE, allow |-> {}]

InitLeaf ==
    /\ lf_filters = NoFilters
    /\ lf_from = 0 /\ lf_to = 0
    /\ lf_path = "requests"
    /\ lf_pc = "idle"
    /\ lf_articles = <<>> /\ lf_n = 0 /\ lf_expected = <<>>

\* the parts of the state outside the Content Store and the indexer
InitWalk ==
    /\ wk_pc = "idle"
    /\ wk_max = 0
    /\ wk_served = <<>>
    /\ wk_stack = <<>>
    /\ wk_call = 0
    /\ wk_fetches = 0
    /\ wk_overflow = FALSE

InitSite ==
    /\ cs_pc = "idle"
    /\ cs_sitemap = FALSE
    /\ cs_feeds = 0
    /\ cs_walk = <<>>
    /\ cs_articles = <<>>
    /\ cs_seen = {}
    /\ cs_feed = 0
    /\ cs_requests = 0

InitFetch ==
    /\ wf_pc = "idle"
    /\ wf_robots = TRUE
    /\ wf_attempt = 0
    /\ wf_outcomes = <<>>
    /\ wf_slept = <<>>
    /\ wf_result = "none"

InitCrawl ==
    /\ cr_pc = "idle"
    /\ cr_urls = <<>>
    /\ max_workers = 1
    /\ max_concurrent_per_source = 1
    /\ checkpoint_every = 1
    /\ cr_at = <<>>
    /\ cr_failed = <<>>
    /\ cr_result = <<>>
    /\ source_counts = [s \in 1..NumSources |-> 0]
    /\ web_pool = 0
    /\ fetched_articles = <<>>
    /\ fetched_count = 0
    /\ skipped_count = 0
    /\ cr_stored = {}

InitDedup ==
    /\ dd_pc = "idle"
    /\ dd_articles = <<>>
    /\ dd_near = {}
    /\ dd_i = 0
    /\ dd_seen = {}
    /\ final_articles = <<>>
    /\ dd_groups = <<>>

InitRecords ==
    /\ rd_pc = "idle"
    /\ rd_deals = <<>>
    /\ rd_k = 0
    /\ unique_deals = <<>>

InitPair ==
    /\ pk_pc = "idle"
    /\ pk_deal1 = NULL
    /\ pk_deal2 = NULL
    /\ pk_merged = NULL

InitOthers ==
    /\ InitWalk
    /\ InitPair
    /\ InitRecords
    /\ InitDedup
    /\ InitCrawl
    /\ InitFetch
    /\ InitSite
    /\ InitIndex
    /\ InitBuild
    /\ InitLeaf

Init ==
    /\ db = [u \in URLs |-> NoRow]
    /\ InitIndexer
    /\ InitBatch
    /\ InitOthers

\* ------------------------------------------------------------ writers
\* ContentCache.upsert_article, the call that succeeds
UpsertArticle(u, c) ==
    /\ db' = upsert_article(db, u, c)
    /\ UNCHANGED <<chroma, runVars, batVars>>

\* the lists crawl_and_store hands over: no URL twice (crawl_all_sites keeps the
\* first occurrence of a URL), taken here in one order since no row depends on it
ArticleLists ==
    {arts \in UNION {[1..n -> [url : URLs, content : Contents]] : n \in 1..MaxArticles} :
        \A a, b \in 1..Len(arts) : a < b => arts[a].url < arts[b].url}

\* ContentCache.upsert_batch with batch_size >= len(articles): one commit
UpsertBatch(arts) ==
    /\ db' = Normalize(InsertAll(db, arts, Now(db)))
    /\ UNCHANGED <<chroma, runVars, batVars>>

Writer ==
    \/ \E u \in URLs, c \in Contents : UpsertArticle(u, c)
    \/ \E arts \in ArticleLists : UpsertBatch(arts)

\* ------------------------------------------------------------ indexer
ResetBatch ==
    /\ articles' = <<>> /\ valid_articles' = <<>>
    /\ i' = 0 /\ j' = 0 /\ b_succeeded' = 0 /\ b_failed' = 0
    /\ batch_raised' = FALSE

\* process_pending_articles, lines 83-100: read the pending count, set the target
Entry(bs, ma, retry) ==
    LET pcnt == PendingCount(db) IN
    /\ batch_size' = bs /\ max_articles' = ma /\ via_retry' = retry
    /\ pending_count' = pcnt
    /\ total_to_process' = IF pcnt = 0 THEN 0
                           ELSE IF ma # 0 THEN Min(pcnt, ma) ELSE pcnt
    /\ processed' = 0 /\ succeeded' = 0 /\ failed' = 0
    /\ pc' = IF pcnt = 0 THEN "done" ELSE "loop"

ProcessPending(bs, ma) ==
    /\ pc = "idle"
    /\ Entry(bs, ma, FALSE)
    /\ UNCHANGED <<storeVars, batVars>>

\* retry_failed_articles, lines 235-240
RetryFailed(bs, mr) ==
    /\ pc = "idle"
    /\ db' = reset_failed_to_pending(db)
    /\ batch_size' = bs /\ max_articles' = mr /\ via_retry' = TRUE
    /\ pc' = IF FailedUrls(db) = {} THEN "retry_done" ELSE "retry_call"
    /\ UNCHANGED <<chroma, pending_count, total_to_process, processed, succeeded,
                   failed, batVars>>

\* retry_failed_articles, lines 243-246: the call of process_pending_articles
RetryCall ==
    /\ pc = "retry_call"
    /\ Entry(batch_size, max_articles, TRUE)
    /\ UNCHANGED <<storeVars, batVars>>

\* the while test and get_pending_articles(limit, offset=0), lines 102-109
FetchBatch ==
    /\ pc = "loop"
    /\ IF processed < total_to_process
       THEN \E rows \in get_pending_articles(db, Min(batch_size, total_to_process - processed), 0) :
                IF rows = <<>>
                THEN pc' = "done" /\ UNCHANGED batVars
                ELSE /\ pc' = "validate"
                     /\ articles' = rows /\ valid_articles' = <<>>
                     /\ i' = 1 /\ j' = 0 /\ b_succeeded' = 0 /\ b_failed' = 0
                     /\ batch_raised' = FALSE
       ELSE pc' = "done" /\ UNCHANGED batVars
    /\ UNCHANGED <<storeVars, batch_size, max_articles, via_retry, pending_count,
                   total_to_process, processed, succeeded, failed>>

\* _process_batch returns {'succeeded', 'failed'} and lines 116-118 add them up
BatchReturns(ends, bsucc, bfail) ==
    /\ succeeded' = IF ends THEN succeeded + bsucc ELSE succeeded
    /\ failed' = IF ends THEN failed + bfail ELSE failed
    /\ processed' = IF ends THEN processed + Len(articles) ELSE processed

\* _process_batch, lines 169-181: one iteration of the validation loop
Validate ==
    /\ pc = "validate"
    /\ LET a == articles[i]
           bad == a.content = ""
           valid == IF bad THEN valid_articles ELSE Append(valid_articles, a)
           bfail == IF bad THEN b_failed + 1 ELSE b_failed
           last == i = Len(articles)
       IN /\ db' = IF bad THEN mark_embedded(db, a.url, FALSE, "Missing required fields")
                          ELSE db
          /\ b_failed' = bfail
          /\ valid_articles' = valid
          /\ i' = i + 1
          /\ pc' = IF ~last THEN "validate"
                   ELSE IF valid # <<>> THEN "batch_upsert" ELSE "loop"
          /\ BatchReturns(last /\ valid = <<>>, b_succeeded, bfail)
    /\ UNCHANGED <<chroma, batch_size, max_articles, via_retry, pending_count,
                   total_to_process, articles, j, b_succeeded, batch_raised>>

\* chroma_cache.upsert_batch(valid_articles, batch_size=len(valid_articles)) returns
BatchUpsertOk ==
    /\ pc = "batch_upsert"
    /\ chroma' = ChromaUpsert(chroma, valid_articles)
    /\ pc' = "mark_batch"
    /\ UNCHANGED <<db, batch_size, max_articles, via_retry, pending_count,
                   total_to_process, processed, succeeded, failed, batVars>>

\* an except branch that marks the whole batch failed instead of retrying
BatchUpsertRaiseFailsBatch ==
    /\ pc = "batch_upsert"
    /\ batch_raised' = TRUE
    /\ db' = mark_embedded_batch(db, UrlsOf(valid_articles), FALSE)
    /\ b_failed' = b_failed + Len(valid_articles)
    /\ pc' = "loop"
    /\ BatchReturns(TRUE, b_succeeded, b_failed + Len(valid_articles))
    /\ UNCHANGED <<chroma, batch_size, max_articles, via_retry, pending_count,
                   total_to_process, articles, valid_articles, i, j, b_succeeded>>

\* chroma_cache.upsert_batch raises: nothing is written, the except branch starts
BatchUpsertRaise ==
    /\ pc = "batch_upsert"
    /\ batch_raised' = TRUE
    /\ j' = 1
    /\ pc' = "fallback"
    /\ UNCHANGED <<storeVars, batch_size, max_articles, via_retry, pending_count,
                   total_to_process, processed, succeeded, failed,
                   articles, valid_articles, i, b_succeeded, b_failed>>

\* lines 189-191: mark_embedded_batch(urls, success=True)
MarkBatch ==
    /\ pc = "mark_batch"
    /\ db' = mark_embedded_batch(db, UrlsOf(valid_articles), TRUE)
    /\ b_succeeded' = b_succeeded + Len(valid_articles)
    /\ pc' = "loop"
    /\ BatchReturns(TRUE, b_succeeded + Len(valid_articles), b_failed)
    /\ UNCHANGED <<chroma, batch_size, max_articles, via_retry, pending_count,
                   total_to_process, articles, valid_articles, i, j, b_failed,
                   batch_raised>>

\* lines 199-206: chroma_cache.upsert_article of one article returns
FallbackOk ==
    /\ pc = "fallback"
    /\ chroma' = ChromaUpsert(chroma, <<valid_articles[j]>>)
    /\ pc' = "fallback_mark"
    /\ UNCHANGED <<db, batch_size, max_articles, via_retry, pending_count,
                   total_to_process, processed, succeeded, failed, batVars>>

\* lines 207-208: mark_embedded(url, success=True)
FallbackMark ==
    /\ pc = "fallback_mark"
    /\ db' = mark_embedded(db, valid_articles[j].url, TRUE, NULL)
    /\ b_succeeded' = b_succeeded + 1
    /\ j' = j + 1
    /\ pc' = IF j = Len(valid_articles) THEN "loop" ELSE "fallback"
    /\ BatchReturns(j = Len(valid_articles), b_succeeded + 1, b_failed)
    /\ UNCHANGED <<chroma, batch_size, max_articles, via_retry, pending_count,
                   total_to_process, articles, valid_articles, i, b_failed,
                   batch_raised>>

\* lines 210-217: chroma_cache.upsert_article raises, mark_embedded(url, success=False)
FallbackRaise ==
    /\ pc = "fallback"
    /\ db' = mark_embedded(db, valid_articles[j].url, FALSE, "str(e2)")
    /\ b_failed' = b_failed + 1
    /\ j' = j + 1
    /\ pc' = IF j = Len(valid_articles) THEN "loop" ELSE "fallback"
    /\ BatchReturns(j = Len(valid_articles), b_succeeded, b_failed + 1)
    /\ UNCHANGED <<chroma, batch_size, max_articles, via_retry, pending_count,
                   total_to_process, articles, valid_articles, i, b_succeeded,
                   batch_raised>>

ResetRun ==
    /\ pc' = "idle"
    /\ batch_size' = 0 /\ max_articles' = 0 /\ via_retry' = FALSE
    /\ pending_count' = 0 /\ total_to_process' = 0
    /\ processed' = 0 /\ succeeded' = 0 /\ failed' = 0

\* the run hands back {'processed', 'succeeded', 'failed'} and its frame is gone
Return ==
    /\ pc \in {"done", "retry_done"}
    /\ ResetRun
    /\ ResetBatch
    /\ UNCHANGED storeVars

\* the indexer process dies: its locals are lost, both stores keep what was committed
Crash ==
    /\ pc \notin {"idle", "done", "retry_done"}
    /\ ResetRun
    /\ ResetBatch
    /\ UNCHANGED storeVars

Sizes == 1..MaxBatchSize
Caps == 0..MaxCap

Indexer ==
    \/ \E bs \in Sizes, ma \in Caps : ProcessPending(bs, ma)
    \/ \E bs \in Sizes, mr \in Caps : RetryFailed(bs, mr)
    \/ RetryCall
    \/ FetchBatch
    \/ Validate
    \/ BatchUpsertOk
    \/ BatchUpsertRaise
    \/ MarkBatch
    \/ FallbackOk
    \/ FallbackMark
    \/ FallbackRaise
    \/ Return

\* ------------------------------------------------------------ upsert_batch
\* ContentCache.upsert_batch one statement at a time. The list's k-th article has
\* URL k, or no 'url' key at all (url 0): article['url'] then raises inside the
\* try block. The table is empty when the call starts, so the call's fetched_at
\* has rank 1.
ListUrls == 1..MaxList
NoUrl == 0

BatchLists ==
    {arts \in UNION {[1..n -> [url : ListUrls \cup {NoUrl}, content : {"v1"}]] : n \in 0..MaxList} :
        \A k \in 1..Len(arts) : arts[k].url \in {k, NoUrl}}

\* where the for loop goes once i articles are behind it
AfterArticle(k) == IF k >= Len(ub_articles) THEN "final_commit" ELSE "insert"

UbCall(arts, n) ==
    /\ ub_pc = "idle"
    /\ ub_articles' = arts /\ ub_batch_size' = n
    /\ ub_i' = 0 /\ ub_inserted' = 0
    /\ ub_pc' = IF arts = <<>> THEN "final_commit" ELSE "insert"
    /\ UNCHANGED <<db, txn>>

\* conn.execute(INSERT ...) succeeds; inserted += 1; then the commit test
UbInsert ==
    /\ ub_pc = "insert"
    /\ ub_articles[ub_i + 1].url # NoUrl
    /\ txn' = UpsertRow(txn, ub_articles[ub_i + 1].url, ub_articles[ub_i + 1].content, 1)
    /\ ub_inserted' = ub_inserted + 1
    /\ IF (ub_i + 1) % ub_batch_size = 0
       THEN ub_pc' = "commit" /\ ub_i' = ub_i
       ELSE ub_pc' = AfterArticle(ub_i + 1) /\ ub_i' = ub_i + 1
    /\ UNCHANGED <<db, ub_articles, ub_batch_size>>

\* the statement raises: the except clause logs it and the loop goes on, past the
\* commit test
UbInsertRaises ==
    /\ ub_pc = "insert"
    /\ ub_articles[ub_i + 1].url = NoUrl
    /\ ub_i' = ub_i + 1
    /\ ub_pc' = AfterArticle(ub_i + 1)
    /\ UNCHANGED <<db, txn, ub_articles, ub_batch_size, ub_inserted>>

\* conn.commit() inside the loop
UbCommit ==
    /\ ub_pc = "commit"
    /\ db' = txn
    /\ ub_i' = ub_i + 1
    /\ ub_pc' = AfterArticle(ub_i + 1)
    /\ UNCHANGED <<txn, ub_articles, ub_batch_size, ub_inserted>>

\* the final conn.commit() and return inserted
UbFinalCommit ==
    /\ ub_pc = "final_commit"
    /\ db' = txn
    /\ ub_pc' = "returned"
    /\ UNCHANGED <<txn, ub_articles, ub_batch_size, ub_i, ub_inserted>>

\* the process dies: the open transaction is rolled back
UbCrash ==
    /\ ub_pc \in {"insert", "commit", "final_commit"}
    /\ ub_pc' = "crashed"
    /\ txn' = db
    /\ UNCHANGED <<db, ub_articles, ub_batch_size, ub_i, ub_inserted>>

\* ------------------------------------------------------------ Crawl Index
\* json.dump of crawled_urls and url_metadata into the file opened with 'w': an
\* entry json cannot serialise raises after the file was truncated, and save()
\* only logs the error
save(urls, meta) ==
    IF meta = {} THEN [state |-> "json", urls |-> urls]
    ELSE [state |-> "partial", urls |-> {}]

\* URLIndex.load(): a missing file, or one json.load cannot parse, is an empty index
load(file) == IF file.state = "json" THEN file.urls ELSE {}

\* an index that reports every URL as new
is_crawled_never(index, u) == FALSE

is_crawled(index, u) == u \in index

\* the metadata argument of mark_crawled: none, a dict json can serialise, or one
\* it cannot (a datetime value)
MetaKinds == {"none", "json", "other"}

\* URLIndex(index_path)
IndexOpen ==
    /\ cpc = "idle"
    /\ crawled_urls' = load(index_file)
    /\ url_metadata' = {}
    /\ marked' = saved_marked
    /\ ix_last' = "load"
    /\ UNCHANGED <<index_file, use_index, cpc, site, all_articles, seen_urls,
                   saved_marked, index_at_start, offered, site_new>>

MarkCrawled(u, m) ==
    /\ cpc = "idle" /\ ix_last # "none"
    /\ crawled_urls' = crawled_urls \cup {u}
    /\ url_metadata' = IF m = "other" THEN url_metadata \cup {u}
                       ELSE IF m = "json" THEN url_metadata \ {u}
                       ELSE url_metadata
    /\ marked' = marked \cup {u}
    /\ ix_last' = "mark"
    /\ UNCHANGED <<index_file, use_index, cpc, site, all_articles, seen_urls,
                   saved_marked, index_at_start, offered, site_new>>

IndexSave ==
    /\ cpc = "idle" /\ ix_last # "none"
    /\ index_file' = save(crawled_urls, url_metadata)
    /\ saved_marked' = marked
    /\ ix_last' = "save"
    /\ UNCHANGED <<crawled_urls, url_metadata, use_index, cpc, site, all_articles,
                   seen_urls, marked, index_at_start, offered, site_new>>

IndexReset ==
    /\ cpc = "idle" /\ ix_last # "none"
    /\ crawled_urls' = {}
    /\ url_metadata' = {}
    /\ marked' = {}
    /\ ix_last' = "reset"
    /\ UNCHANGED <<index_file, use_index, cpc, site, all_articles, seen_urls,
                   saved_marked, index_at_start, offered, site_new>>

\* ------------------------------------------------------------ crawl_all_sites
\* what crawl_site returns: article URLs, possibly one twice
SiteResults == UNION {[1..n -> URLs] : n \in 0..MaxArticles}

\* the filter loop of the use_index branch over one site's articles
RECURSIVE FilterNew(_, _, _, _)
FilterNew(arts, index, seen, new) ==
    IF arts = <<>> THEN [new |-> new, index |-> index, seen |-> seen]
    ELSE LET u == Head(arts) IN
         IF ~is_crawled(index, u) /\ u \notin seen
         THEN FilterNew(Tail(arts), index \cup {u}, seen \cup {u}, Append(new, u))
         ELSE FilterNew(Tail(arts), index, seen, new)

\* the loop of the branch without an index
RECURSIVE FilterSeen(_, _, _)
FilterSeen(arts, seen, new) ==
    IF arts = <<>> THEN [new |-> new, seen |-> seen]
    ELSE IF Head(arts) \notin seen
         THEN FilterSeen(Tail(arts), seen \cup {Head(arts)}, Append(new, Head(arts)))
         ELSE FilterSeen(Tail(arts), seen, new)

\* ExhaustiveSiteCrawler(use_index = ui) followed by the entry of crawl_all_sites
NewCrawler(ui) ==
    /\ cpc = "idle"
    /\ cpc' = "sites"
    /\ use_index' = ui
    /\ site' = 1
    /\ all_articles' = <<>> /\ seen_urls' = {}
    /\ offered' = {} /\ site_new' = {}
    /\ IF ui
       THEN /\ crawled_urls' = load(index_file)
            /\ url_metadata' = {}
            /\ marked' = saved_marked
            /\ ix_last' = "load"
            /\ index_at_start' = load(index_file)
       ELSE /\ index_at_start' = {}
            /\ UNCHANGED <<crawled_urls, url_metadata, marked, ix_last>>
    /\ UNCHANGED <<index_file, saved_marked>>

\* one turn of the loop over PRIORITY_SITES
CrawlSite(arts) ==
    /\ cpc = "sites"
    /\ offered' = offered \cup {arts[k] : k \in 1..Len(arts)}
    /\ IF use_index
       THEN LET r == FilterNew(arts, crawled_urls, seen_urls, <<>>) IN
            /\ all_articles' = all_articles \o r.new
            /\ seen_urls' = r.seen
            /\ crawled_urls' = r.index
            /\ marked' = marked \cup {r.new[k] : k \in 1..Len(r.new)}
            /\ site_new' = {r.new[k] : k \in 1..Len(r.new)}
            /\ ix_last' = IF r.new # <<>> THEN "mark" ELSE ix_last
       ELSE LET r == FilterSeen(arts, seen_urls, <<>>) IN
            /\ all_articles' = all_articles \o r.new
            /\ seen_urls' = r.seen
            /\ UNCHANGED <<crawled_urls, marked, ix_last, site_new>>
    /\ site' = site + 1
    /\ cpc' = IF site = NumSites THEN "save" ELSE "sites"
    /\ UNCHANGED <<index_file, url_metadata, use_index, saved_marked, index_at_start>>

\* if self.use_index: self.url_index.save()
CrawlSave ==
    /\ cpc = "save"
    /\ cpc' = "done"
    /\ IF use_index
       THEN /\ index_file' = save(crawled_urls, url_metadata)
            /\ saved_marked' = marked
            /\ ix_last' = "save"
       ELSE UNCHANGED <<index_file, saved_marked, ix_last>>
    /\ UNCHANGED <<crawled_urls, url_metadata, use_index, site, all_articles,
                   seen_urls, marked, index_at_start, offered, site_new>>

\* return all_articles
CrawlReturn ==
    /\ cpc = "done"
    /\ cpc' = "idle"
    /\ site' = 0
    /\ all_articles' = <<>> /\ seen_urls' = {}
    /\ index_at_start' = {} /\ offered' = {} /\ site_new' = {}
    /\ UNCHANGED <<index_file, crawled_urls, url_metadata, use_index, marked,
                   saved_marked, ix_last>>

\* the crawl process dies, and its index object with it
CrawlCrash ==
    /\ cpc \in {"sites", "save"}
    /\ cpc' = "idle"
    /\ site' = 0
    /\ all_articles' = <<>> /\ seen_urls' = {}
    /\ index_at_start' = {} /\ offered' = {} /\ site_new' = {}
    /\ crawled_urls' = {} /\ url_metadata' = {}
    /\ marked' = {}
    /\ ix_last' = "none"
    /\ UNCHANGED <<index_file, use_index, saved_marked>>

\* ------------------------------------------------------------ build_cache
\* step1_build_cache_chroma.build_cache: crawl with the index, fetch what the
\* collection does not hold, insert the fetched articles at the end. The worker
\* pool's results are taken in list order: no outcome depends on the order.
NoBuild ==
    /\ urls_to_fetch' = <<>> /\ fetched' = <<>>
    /\ skipped' = 0

\* crawler = ExhaustiveSiteCrawler(use_index=True); crawler.crawl_all_sites()
BuildStart ==
    /\ bpc = "idle"
    /\ bpc' = "crawl"
    /\ NewCrawler(TRUE)
    /\ NoBuild
    /\ UNCHANGED chroma

BuildCrawlSite(arts) ==
    /\ bpc = "crawl"
    /\ CrawlSite(arts)
    /\ UNCHANGED <<chroma, buildVars>>

BuildCrawlSave ==
    /\ bpc = "crawl"
    /\ CrawlSave
    /\ UNCHANGED <<chroma, buildVars>>

\* cache.article_exists(url)
article_exists(col, u) == col[u] # NoDoc

\* urls_to_fetch = [u for u in all_urls if not cache.article_exists(u['url'])]
BuildSelect ==
    /\ bpc = "crawl"
    /\ CrawlReturn
    /\ urls_to_fetch' = SelectSeq(all_articles, LAMBDA u : ~article_exists(chroma, u))
    /\ bpc' = "fetch"
    /\ UNCHANGED <<chroma, fetched, skipped>>

\* fetch(url_data) returns an article
BuildFetchOk ==
    /\ bpc = "fetch" /\ urls_to_fetch # <<>>
    /\ fetched' = Append(fetched, [url |-> Head(urls_to_fetch), content |-> "v1"])
    /\ urls_to_fetch' = Tail(urls_to_fetch)
    /\ UNCHANGED <<chroma, bpc, skipped, ixVars, ixObs>>

\* fetch(url_data) returns None: no page, a short text, an old date, an exception
BuildFetchNone ==
    /\ bpc = "fetch" /\ urls_to_fetch # <<>>
    /\ skipped' = skipped + 1
    /\ urls_to_fetch' = Tail(urls_to_fetch)
    /\ UNCHANGED <<chroma, bpc, fetched, ixVars, ixObs>>

\* cache.upsert_batch(articles, batch_size=100)
BuildInsert ==
    /\ bpc = "fetch" /\ urls_to_fetch = <<>>
    /\ chroma' = ChromaUpsert(chroma, fetched)
    /\ bpc' = "done"
    /\ UNCHANGED <<urls_to_fetch, fetched, skipped, ixVars, ixObs>>

BuildReturn ==
    /\ bpc = "done"
    /\ bpc' = "idle"
    /\ NoBuild
    /\ UNCHANGED <<chroma, ixVars, ixObs>>

\* the process dies during the crawl or during the fetch
BuildCrash ==
    /\ \/ bpc = "crawl" /\ CrawlCrash
       \/ bpc = "fetch" /\ UNCHANGED <<ixVars, ixObs>>
    /\ bpc' = "idle"
    /\ NoBuild
    /\ UNCHANGED chroma

\* ------------------------------------------------------------ leaf sitemap
\* An instant is a number of ticks; day d starts at tick d * TicksPerDay.
\* datetime.strptime(date, "%Y-%m-%d").replace(tzinfo=timezone.utc)
Midnight(day) == day * TicksPerDay
Days == 0..MaxDay
Ticks == 0..(Midnight(MaxDay + 1) - 1)

\* <lastmod>: absent, not an ISO string, an ISO string without a UTC offset, or
\* one with an offset; at is the instant it names
Lastmods ==
    {[kind |-> "none", at |-> 0], [kind |-> "malformed", at |-> 0]}
        \cup [kind : {"naive", "aware"}, at : Ticks]
LeafEntries == [url : URLs, lastmod : Lastmods]

SiteFilters ==
    {f \in [block : SUBSET URLs, has_allow : BOOLEAN, allow : SUBSET URLs] :
        ~f.has_allow => f.allow = {}}

_should_include_url(f, u) ==
    IF u \in f.block THEN FALSE
    ELSE IF f.has_allow THEN u \in f.allow
    ELSE TRUE

\* datetime.fromisoformat succeeded
Parsed(e) == e.lastmod.kind \in {"naive", "aware"}

\* self.from_date <= published_date <= self.to_date
InDateRange(t) == Midnight(lf_from) <= t /\ t <= Midnight(lf_to)

\* the three conditions on an entry: no block pattern matches, an allow pattern
\* matches if there is any, and the timestamp, if it has one, lies between
\* fromDate and toDate, both taken at midnight UTC
ShouldEmit(e) ==
    /\ e.url \notin lf_filters.block
    /\ lf_filters.has_allow => e.url \in lf_filters.allow
    /\ Parsed(e) => (Midnight(lf_from) <= e.lastmod.at /\ e.lastmod.at <= Midnight(lf_to))

\* _fetch_sitemap(sitemap_url, site_name, site_config) reaches a document of
\* <url> entries, through requests or, after a 403, through Selenium
LeafStart(f, from, to, path) ==
    /\ lf_pc = "idle"
    /\ lf_filters' = f /\ lf_from' = from /\ lf_to' = to /\ lf_path' = path
    /\ lf_pc' = "entries"
    /\ lf_articles' = <<>> /\ lf_n' = 0 /\ lf_expected' = <<>>

\* one turn of `for url in urls`
LeafEntry(e) ==
    /\ lf_pc = "entries" /\ lf_n < MaxEntries
    /\ ~(lf_path = "selenium" /\ e.lastmod.kind = "naive" /\ _should_include_url(lf_filters, e.url))
    /\ lf_articles' = IF /\ _should_include_url(lf_filters, e.url)
                         /\ Parsed(e) => InDateRange(e.lastmod.at)
                      THEN Append(lf_articles, e.url)
                      ELSE lf_articles
    /\ lf_n' = lf_n + 1
    /\ lf_expected' = IF ShouldEmit(e) THEN Append(lf_expected, e.url) ELSE lf_expected
    /\ UNCHANGED <<lf_filters, lf_from, lf_to, lf_path, lf_pc>>

\* _fetch_sitemap_selenium keeps a timestamp without offset naive: comparing it
\* with the aware from_date raises TypeError, the outer except returns []
LeafEntryRaises(e) ==
    /\ lf_pc = "entries" /\ lf_n < MaxEntries
    /\ lf_path = "selenium" /\ e.lastmod.kind = "naive" /\ _should_include_url(lf_filters, e.url)
    /\ lf_articles' = <<>>
    /\ lf_n' = lf_n + 1
    /\ lf_expected' = IF ShouldEmit(e) THEN Append(lf_expected, e.url) ELSE lf_expected
    /\ lf_pc' = "returned"
    /\ UNCHANGED <<lf_filters, lf_from, lf_to, lf_path>>

\* return articles
LeafReturn ==
    /\ lf_pc = "entries"
    /\ lf_pc' = "returned"
    /\ UNCHANGED <<lf_filters, lf_from, lf_to, lf_path, lf_articles, lf_n, lf_expected>>

\* ------------------------------------------------------------ sitemap index
Docs == 1..NumDocs
NoCall == 0
RootDoc == 1

\* what a fetched document is: a list of <url> entries (or a failed fetch, which
\* also returns without recursing), or a sitemap index with its <sitemap> locs,
\* taken after the skip_old_archives filter
Leaf == <<>>
NotFetched == <<NoCall>>
DocContents == UNION {[1..n -> Docs] : n \in 0..MaxChildren}

\* the interpreter's recursion limit, deeper than any nesting without a cycle
RecursionLimit == NumDocs + 1

\* a walk that follows every sub-sitemap listed
Untruncated(locs, max) == locs

\* sitemap_locs = sitemap_locs[:max_sitemaps]
Truncated(locs, max) == SubSeq(locs, 1, Min(Len(locs), max))

Top == wk_stack[Len(wk_stack)]
Pop == SubSeq(wk_stack, 1, Len(wk_stack) - 1)

\* crawl_site calls _fetch_sitemap(sitemap_url, site_name, site_config)
WalkStart(max) ==
    /\ wk_pc = "idle"
    /\ wk_pc' = "walking"
    /\ wk_max' = max
    /\ wk_served' = [d \in Docs |-> NotFetched]
    /\ wk_stack' = <<>>
    /\ wk_call' = RootDoc
    /\ wk_fetches' = 0
    /\ wk_overflow' = FALSE

\* the call fetches its document: the site serves for it what it served before
FetchDoc(content) ==
    /\ wk_pc = "walking" /\ wk_call # NoCall
    /\ Len(wk_stack) < RecursionLimit
    /\ wk_served[wk_call] \in {NotFetched, content}
    /\ wk_served' = [wk_served EXCEPT ![wk_call] = content]
    /\ wk_stack' = IF content = Leaf THEN wk_stack
                   ELSE Append(wk_stack, [doc |-> wk_call,
                                          total_sitemaps |-> Len(content),
                                          todo |-> Truncated(content, wk_max),
                                          fetched |-> 0])
    /\ wk_call' = NoCall
    /\ UNCHANGED <<wk_pc, wk_max, wk_fetches, wk_overflow>>

\* the stack is exhausted: RecursionError, an Exception, is caught by the except
\* clause of the call, which returns []
FetchOverflows ==
    /\ wk_pc = "walking" /\ wk_call # NoCall
    /\ Len(wk_stack) >= RecursionLimit
    /\ wk_overflow' = TRUE
    /\ wk_call' = NoCall
    /\ UNCHANGED <<wk_pc, wk_max, wk_served, wk_stack, wk_fetches>>

\* one turn of `for i, sitemap_loc in enumerate(sitemap_locs, 1)`: the recursive
\* call for the next sub-sitemap
FetchSubSitemap ==
    /\ wk_pc = "walking" /\ wk_call = NoCall
    /\ wk_stack # <<>> /\ Top.todo # <<>>
    /\ wk_call' = Head(Top.todo)
    /\ wk_stack' = [wk_stack EXCEPT ![Len(wk_stack)].todo = Tail(Top.todo),
                                    ![Len(wk_stack)].fetched = Top.fetched + 1]
    /\ wk_fetches' = wk_fetches + 1
    /\ UNCHANGED <<wk_pc, wk_max, wk_served, wk_overflow>>

\* the loop of a sitemap index is over: return articles
IndexReturns ==
    /\ wk_pc = "walking" /\ wk_call = NoCall
    /\ wk_stack # <<>> /\ Top.todo = <<>>
    /\ wk_stack' = Pop
    /\ UNCHANGED <<wk_pc, wk_max, wk_served, wk_call, wk_fetches, wk_overflow>>

\* the outermost call returns to crawl_site
WalkReturns ==
    /\ wk_pc = "walking" /\ wk_call = NoCall /\ wk_stack = <<>>
    /\ wk_pc' = "returned"
    /\ UNCHANGED <<wk_max, wk_served, wk_stack, wk_call, wk_fetches, wk_overflow>>

\* ------------------------------------------------------------ crawl_site
\* what one discovery mechanism (_fetch_sitemap, _fetch_rss_feed) hands back:
\* a list of article URLs, empty when the fetch failed or nothing matched
Found == UNION {[1..n -> URLs] : n \in 0..MaxEntries}

\* the loop "if url not in seen_urls: seen_urls.add(url); all_articles.append"
\* over the list found by one mechanism
RECURSIVE Collect(_, _, _, _)
Collect(all, seen, found, via) ==
    IF found = <<>> THEN [all |-> all, seen |-> seen]
    ELSE IF Head(found) \in seen THEN Collect(all, seen, Tail(found), via)
    ELSE Collect(Append(all, [url |-> Head(found), via |-> via]),
                 seen \cup {Head(found)}, Tail(found), via)

\* the fallback test of crawl_site taken on every call
AlwaysFallback(all) == TRUE

\* if len(all_articles) == 0
NeedsFallback(all) == Len(all) = 0

\* crawl_site(site_name) is entered for a site of PRIORITY_SITES
SiteStart(sitemap, feeds) ==
    /\ cs_pc = "idle"
    /\ cs_pc' = "sitemap"
    /\ cs_sitemap' = sitemap
    /\ cs_feeds' = feeds
    /\ cs_walk' = <<>>
    /\ cs_articles' = <<>>
    /\ cs_seen' = {}
    /\ cs_feed' = 0
    /\ cs_requests' = 0

\* if sitemap_url: articles = self._fetch_sitemap(...), merged into all_articles
SiteSitemap(found) ==
    /\ cs_pc = "sitemap"
    /\ cs_sitemap
    /\ cs_walk' = found
    /\ cs_articles' = Collect(cs_articles, cs_seen, found, "sitemap").all
    /\ cs_seen' = Collect(cs_articles, cs_seen, found, "sitemap").seen
    /\ cs_pc' = "fallback"
    /\ UNCHANGED <<cs_sitemap, cs_feeds, cs_feed, cs_requests>>

\* the site has no 'sitemap' entry: nothing is walked
SiteNoSitemap ==
    /\ cs_pc = "sitemap"
    /\ ~cs_sitemap
    /\ cs_pc' = "fallback"
    /\ UNCHANGED <<cs_sitemap, cs_feeds, cs_walk, cs_articles, cs_seen, cs_feed, cs_requests>>

\* len(all_articles) == 0: the loop over rss_feeds is entered
SiteFallback ==
    /\ cs_pc = "fallback"
    /\ NeedsFallback(cs_articles)
    /\ cs_pc' = "rss"
    /\ UNCHANGED <<cs_sitemap, cs_feeds, cs_walk, cs_articles, cs_seen, cs_feed, cs_requests>>

\* len(all_articles) != 0: the fallback block is skipped
SiteSkipRss ==
    /\ cs_pc = "fallback"
    /\ ~NeedsFallback(cs_articles)
    /\ cs_pc' = "done"
    /\ UNCHANGED <<cs_sitemap, cs_feeds, cs_walk, cs_articles, cs_seen, cs_feed, cs_requests>>

\* one turn of "for feed_url in rss_feeds": the feed is requested and merged
SiteRssFeed(found) ==
    /\ cs_pc = "rss"
    /\ cs_feed < cs_feeds
    /\ cs_feed' = cs_feed + 1
    /\ cs_requests' = cs_requests + 1
    /\ cs_articles' = Collect(cs_articles, cs_seen, found, "rss").all
    /\ cs_seen' = Collect(cs_articles, cs_seen, found, "rss").seen
    /\ UNCHANGED <<cs_pc, cs_sitemap, cs_feeds, cs_walk>>

\* the loop over rss_feeds is over
SiteRssDone ==
    /\ cs_pc = "rss"
    /\ cs_feed = cs_feeds
    /\ cs_pc' = "done"
    /\ UNCHANGED <<cs_sitemap, cs_feeds, cs_walk, cs_articles, cs_seen, cs_feed, cs_requests>>

\* return all_articles
SiteReturn ==
    /\ cs_pc = "done"
    /\ cs_pc' = "idle"
    /\ UNCHANGED <<cs_sitemap, cs_feeds, cs_walk, cs_articles, cs_seen, cs_feed, cs_requests>>

\* ------------------------------------------------------------ WebClient.fetch
\* @retry(stop=stop_after_attempt(3),
\*        wait=wait_exponential(multiplier=1, min=2, max=10), reraise=True)
StopAfterAttempt == 3
WaitMultiplier == 1
WaitMin == 2
WaitMax == 10

RECURSIVE Pow2(_)
Pow2(n) == IF n = 0 THEN 1 ELSE 2 * Pow2(n - 1)

\* tenacity's wait_exponential after the attempt-th attempt failed:
\* max(min, min(multiplier * 2 ** (attempt - 1), max))
wait_exponential(attempt) ==
    Max(WaitMin, Min(WaitMultiplier * Pow2(attempt - 1), WaitMax))

\* what session.get + raise_for_status can do: return the response, or raise a
\* requests.RequestException for a connection error / timeout, for a 4xx
\* status or for a 5xx status (HTTPError is a RequestException)
Failures == {"network", "4xx", "5xx"}

\* fetch(url, respect_robots) is called
FetchCall(respect_robots) ==
    /\ wf_pc = "idle"
    /\ wf_pc' = "attempt"
    /\ wf_robots' = respect_robots
    /\ wf_attempt' = 1
    /\ wf_outcomes' = <<>>
    /\ wf_slept' = <<>>
    /\ wf_result' = "none"

\* respect_robots and not can_fetch(url): return None without a request
FetchDisallowed ==
    /\ wf_pc = "attempt"
    /\ wf_robots
    /\ wf_pc' = "returned"
    /\ wf_result' = "None"
    /\ UNCHANGED <<wf_robots, wf_attempt, wf_outcomes, wf_slept>>

\* session.get answers with a good status: return response
FetchResponds ==
    /\ wf_pc = "attempt"
    /\ wf_outcomes' = Append(wf_outcomes, "ok")
    /\ wf_pc' = "returned"
    /\ wf_result' = "response"
    /\ UNCHANGED <<wf_robots, wf_attempt, wf_slept>>

\* the request raises and attempts are left: the except block re-raises, the
\* decorator (no retry= argument: every exception is retried) sleeps and
\* calls the function again
FetchRetries(failure) ==
    /\ wf_pc = "attempt"
    /\ wf_attempt < StopAfterAttempt
    /\ wf_outcomes' = Append(wf_outcomes, failure)
    /\ wf_slept' = Append(wf_slept, wait_exponential(wf_attempt))
    /\ wf_attempt' = wf_attempt + 1
    /\ UNCHANGED <<wf_pc, wf_robots, wf_result>>

\* the request raises on the last attempt: reraise=True hands the exception
\* to the caller
FetchGivesUp(failure) ==
    /\ wf_pc = "attempt"
    /\ wf_attempt = StopAfterAttempt
    /\ wf_outcomes' = Append(wf_outcomes, failure)
    /\ wf_pc' = "returned"
    /\ wf_result' = "raised"
    /\ UNCHANGED <<wf_robots, wf_attempt, wf_slept>>

\* the caller has the result
FetchDone ==
    /\ wf_pc = "returned"
    /\ wf_pc' = "idle"
    /\ UNCHANGED <<wf_robots, wf_attempt, wf_outcomes, wf_slept, wf_result>>

\* ------------------------------------------------------------ crawl_and_store
Sources == 1..NumSources

\* the non-empty urls_to_fetch lists, each URL given by its source
UrlLists == UNION {[1..n -> Sources] : n \in 1..MaxJobs}

\* what can happen to one URL inside fetch_article: the page comes back and
\* passes the checks ("ok"), the server answers 403 ("blocked"), a Cloudflare
\* challenge page, another non-200 status, scraper.get raises ("timeout"),
\* BeautifulSoup raises on the document ("malformed"), the text is shorter
\* than 500 characters ("short"), or the date precedes start_date ("old")
Outcomes == {"ok", "blocked", "challenge", "status", "timeout", "malformed", "short", "old"}

\* SeleniumWebClient.fetch: html on a 200 that is no challenge page, None on
\* 403, on another status, on a challenge page and on every exception
client_fetch(outcome) ==
    IF outcome \in {"blocked", "challenge", "status", "timeout"} THEN "None" ELSE "html"

\* fetch_article with the exceptions of the try block left uncaught
fetch_article_uncaught(outcome) ==
    IF outcome = "ok" THEN "article"
    ELSE IF outcome \in {"timeout", "malformed"} THEN "raise"
    ELSE "None"

\* the value fetch_article returns: "if not html: return None", the length and
\* date checks return None, "except Exception: return None"
fetch_article(outcome) ==
    IF client_fetch(outcome) = "None" THEN "None"
    ELSE IF outcome \in {"malformed", "short", "old"} THEN "None"
    ELSE "article"

Jobs == 1..Len(cr_urls)

\* fetch_article calls a worker thread is executing
Running == {n \in Jobs : cr_at[n] \in {"counted", "fetching", "fetched", "released"}}

\* calls of one source that are inside client.fetch
InFlight(s) == {n \in Jobs : cr_urls[n] = s /\ cr_at[n] = "fetching"}

\* cache.upsert_batch(fetched_articles, ...) as far as the URLs go
Stored(arts) == cr_stored \cup {arts[k] : k \in 1..Len(arts)}

\* crawl_and_store reaches the parallel fetch with a non-empty urls_to_fetch:
\* the pool gets max_workers clients and every URL is submitted
CrawlStart(urls, workers, per_source, checkpoint) ==
    /\ cr_pc = "idle"
    /\ cr_pc' = "running"
    /\ cr_urls' = urls
    /\ max_workers' = workers
    /\ max_concurrent_per_source' = per_source
    /\ checkpoint_every' = checkpoint
    /\ cr_at' = [n \in 1..Len(urls) |-> "queued"]
    /\ cr_failed' = [n \in 1..Len(urls) |-> FALSE]
    /\ cr_result' = [n \in 1..Len(urls) |-> "pending"]
    /\ source_counts' = [s \in Sources |-> 0]
    /\ web_pool' = workers
    /\ fetched_articles' = <<>>
    /\ fetched_count' = 0
    /\ skipped_count' = 0
    /\ cr_stored' = {}

\* a free worker thread takes the next submitted URL and runs the first
\* "with lock" block: the test against max_concurrent_per_source only leads to
\* "pass", then source_counts[source] += 1
WorkerCounts(n) ==
    /\ cr_pc = "running"
    /\ n \in Jobs
    /\ cr_at[n] = "queued"
    /\ \A k \in 1..(n - 1) : cr_at[k] # "queued"
    /\ Cardinality(Running) < max_workers
    /\ source_counts' = [source_counts EXCEPT ![cr_urls[n]] = @ + 1]
    /\ cr_at' = [cr_at EXCEPT ![n] = "counted"]
    /\ UNCHANGED <<cr_pc, cr_urls, max_workers, max_concurrent_per_source, checkpoint_every, cr_failed, cr_result, web_pool, fetched_articles, fetched_count, skipped_count, cr_stored>>

\* client = web_pool.get(); client.fetch(url) starts
WorkerGetsClient(n) ==
    /\ cr_pc = "running"
    /\ n \in Jobs
    /\ cr_at[n] = "counted"
    /\ web_pool > 0
    /\ web_pool' = web_pool - 1
    /\ cr_at' = [cr_at EXCEPT ![n] = "fetching"]
    /\ UNCHANGED <<cr_pc, cr_urls, max_workers, max_concurrent_per_source, checkpoint_every, cr_failed, cr_result, source_counts, fetched_articles, fetched_count, skipped_count, cr_stored>>

\* the try block ends: the value to return is fixed, fetched_count grows for an
\* article
WorkerFetches(n, outcome) ==
    /\ cr_pc = "running"
    /\ n \in Jobs
    /\ cr_at[n] = "fetching"
    /\ cr_failed' = [cr_failed EXCEPT ![n] = outcome # "ok"]
    /\ cr_result' = [cr_result EXCEPT ![n] = fetch_article(outcome)]
    /\ fetched_count' = IF fetch_article(outcome) = "article" THEN fetched_count + 1 ELSE fetched_count
    /\ cr_at' = [cr_at EXCEPT ![n] = "fetched"]
    /\ UNCHANGED <<cr_pc, cr_urls, max_workers, max_concurrent_per_source, checkpoint_every, source_counts, web_pool, fetched_articles, skipped_count, cr_stored>>

\* finally: web_pool.put(client)
WorkerPutsClient(n) ==
    /\ cr_pc = "running"
    /\ n \in Jobs
    /\ cr_at[n] = "fetched"
    /\ web_pool' = web_pool + 1
    /\ cr_at' = [cr_at EXCEPT ![n] = "released"]
    /\ UNCHANGED <<cr_pc, cr_urls, max_workers, max_concurrent_per_source, checkpoint_every, cr_failed, cr_result, source_counts, fetched_articles, fetched_count, skipped_count, cr_stored>>

\* finally: with lock: source_counts[source] -= 1; the future is complete
WorkerLeaves(n) ==
    /\ cr_pc = "running"
    /\ n \in Jobs
    /\ cr_at[n] = "released"
    /\ source_counts' = [source_counts EXCEPT ![cr_urls[n]] = @ - 1]
    /\ cr_at' = [cr_at EXCEPT ![n] = "finished"]
    /\ UNCHANGED <<cr_pc, cr_urls, max_workers, max_concurrent_per_source, checkpoint_every, cr_failed, cr_result, web_pool, fetched_articles, fetched_count, skipped_count, cr_stored>>

\* as_completed yields a future holding an article: it is appended, and the
\* list is committed and cleared once it holds checkpoint_every articles
MainTakesArticle(n) ==
    /\ cr_pc = "running"
    /\ n \in Jobs
    /\ cr_at[n] = "finished"
    /\ cr_result[n] = "article"
    /\ cr_at' = [cr_at EXCEPT ![n] = "consumed"]
    /\ IF Len(fetched_articles) + 1 >= checkpoint_every
       THEN /\ cr_stored' = Stored(Append(fetched_articles, n))
            /\ fetched_articles' = <<>>
       ELSE /\ fetched_articles' = Append(fetched_articles, n)
            /\ UNCHANGED cr_stored
    /\ UNCHANGED <<cr_pc, cr_urls, max_workers, max_concurrent_per_source, checkpoint_every, cr_failed, cr_result, source_counts, web_pool, fetched_count, skipped_count>>

\* as_completed yields a future holding None: skipped_count[0] += 1
MainSkips(n) ==
    /\ cr_pc = "running"
    /\ n \in Jobs
    /\ cr_at[n] = "finished"
    /\ cr_result[n] = "None"
    /\ cr_at' = [cr_at EXCEPT ![n] = "consumed"]
    /\ skipped_count' = skipped_count + 1
    /\ UNCHANGED <<cr_pc, cr_urls, max_workers, max_concurrent_per_source, checkpoint_every, cr_failed, cr_result, source_counts, web_pool, fetched_articles, fetched_count, cr_stored>>

\* every future has been taken: the final commit and the end of the run
MainFinalCommit ==
    /\ cr_pc = "running"
    /\ \A n \in Jobs : cr_at[n] = "consumed"
    /\ cr_stored' = Stored(fetched_articles)
    /\ fetched_articles' = <<>>
    /\ cr_pc' = "done"
    /\ UNCHANGED <<cr_urls, max_workers, max_concurrent_per_source, checkpoint_every, cr_at, cr_failed, cr_result, source_counts, web_pool, fetched_count, skipped_count>>

\* crawl_and_store has returned; the script may be run again
CrawlExit ==
    /\ cr_pc = "done"
    /\ cr_pc' = "idle"
    /\ UNCHANGED <<cr_urls, max_workers, max_concurrent_per_source, checkpoint_every, cr_at, cr_failed, cr_result, source_counts, web_pool, fetched_articles, fetched_count, skipped_count, cr_stored>>

\* ------------------------------------------------------------ near-duplicate collapser
\* an article is given by its kind: articles of one kind have the same title
\* and the same content
Kinds == 1..NumKinds

\* len(article.get("content", "")) of an article of kind k: kind 1 is the
\* shortest, kinds 2 and 3 are equally long, every later pair is longer
ContentLength(k) == k \div 2 + 1

\* n_neighbors = min(20, len(articles))
NNeighbors == 20

\* the lists tried; none is longer than n_neighbors, so kneighbors returns
\* every article of the list for every query, as the full similarity matrix
\* of TitleDeduplicator does
ArticleLists20 == UNION {[1..n -> Kinds] : n \in 1..Min(MaxItems, NNeighbors)}

\* what the embedding model can make of the kinds: any set of pairs of
\* different kinds may be more similar than the threshold
NearRelations == SUBSET {pair \in SUBSET Kinds : Cardinality(pair) = 2}

\* similarity > SIMILARITY_THRESHOLD: equal texts have equal embeddings and
\* similarity 1
SimilarIn(arts, near, p, q) ==
    \/ arts[p] = arts[q]
    \/ {arts[p], arts[q]} \in near

Similar(p, q) == SimilarIn(dd_articles, dd_near, p, q)

\* similar_indices of the article at position p of the list arts
SimilarIndicesIn(arts, near, p) == {q \in 1..Len(arts) : q # p /\ SimilarIn(arts, near, p, q)}

\* similar_indices of the article at position p
similar_indices(p) == SimilarIndicesIn(dd_articles, dd_near, p)

\* max(group, key=content length) with group = [i] + similar_indices: the
\* first longest member in list order; i comes first, the order of the others
\* is by index (TitleDeduplicator) or by distance (deduplicate_by_title)
LongestIn(arts, near, p) ==
    LET group == {p} \cup SimilarIndicesIn(arts, near, p)
        longest == {q \in group : \A r \in group :
                        ContentLength(arts[r]) <= ContentLength(arts[q])}
    IN  IF p \in longest THEN {p} ELSE longest

LongestOf(p) == LongestIn(dd_articles, dd_near, p)

\* the whole loop "for i in range(len(articles))" from index i on, as a
\* function of the list: every set of positions final_articles can end with
RECURSIVE Collapse(_, _, _, _, _)
Collapse(arts, near, p, seen, kept) ==
    IF p > Len(arts) THEN {kept}
    ELSE IF p \in seen THEN Collapse(arts, near, p + 1, seen, kept)
    ELSE IF SimilarIndicesIn(arts, near, p) = {}
         THEN Collapse(arts, near, p + 1, seen \cup {p}, kept \cup {p})
    ELSE UNION {
           LET marked_seen == seen \cup (({p} \cup SimilarIndicesIn(arts, near, p)) \ {longest_idx})
           IN  IF longest_idx \notin marked_seen
               THEN Collapse(arts, near, p + 1, marked_seen \cup {longest_idx}, kept \cup {longest_idx})
               ELSE Collapse(arts, near, p + 1, marked_seen, kept)
           : longest_idx \in LongestIn(arts, near, p)}

\* the sets of articles (by kind) the collapser can return for the list arts
Retained(arts, near) == {{arts[p] : p \in kept} : kept \in Collapse(arts, near, 1, {}, {})}

\* the same articles in every order
Reorderings(arts) == {[k \in 1..Len(arts) |-> arts[f[k]]] : f \in Permutations(1..Len(arts))}

\* the collapser is called; the loop starts with empty seen and final_articles
DedupCall(arts, near) ==
    /\ dd_pc = "idle"
    /\ dd_pc' = "loop"
    /\ dd_articles' = arts
    /\ dd_near' = near
    /\ dd_i' = 1
    /\ dd_seen' = {}
    /\ final_articles' = <<>>
    /\ dd_groups' = <<>>

\* if i in seen: continue
DedupSkip ==
    /\ dd_pc = "loop"
    /\ dd_i <= Len(dd_articles)
    /\ dd_i \in dd_seen
    /\ dd_i' = dd_i + 1
    /\ UNCHANGED <<dd_pc, dd_articles, dd_near, dd_seen, final_articles, dd_groups>>

\* similar_indices is not empty: every member of the group but the longest
\* is marked seen, the longest is appended unless it is in seen
DedupGroup(longest_idx) ==
    /\ dd_pc = "loop"
    /\ dd_i <= Len(dd_articles)
    /\ dd_i \notin dd_seen
    /\ similar_indices(dd_i) # {}
    /\ longest_idx \in LongestOf(dd_i)
    /\ LET marked_seen == dd_seen \cup (({dd_i} \cup similar_indices(dd_i)) \ {longest_idx})
       IN  IF longest_idx \notin marked_seen
           THEN /\ final_articles' = Append(final_articles, longest_idx)
                /\ dd_seen' = marked_seen \cup {longest_idx}
           ELSE /\ dd_seen' = marked_seen
                /\ UNCHANGED final_articles
    /\ dd_groups' = Append(dd_groups, [members |-> {dd_i} \cup similar_indices(dd_i),
                                       longest |-> longest_idx])
    /\ dd_i' = dd_i + 1
    /\ UNCHANGED <<dd_pc, dd_articles, dd_near>>

\* similar_indices is empty: the article is kept
DedupAlone ==
    /\ dd_pc = "loop"
    /\ dd_i <= Len(dd_articles)
    /\ dd_i \notin dd_seen
    /\ similar_indices(dd_i) = {}
    /\ final_articles' = Append(final_articles, dd_i)
    /\ dd_seen' = dd_seen \cup {dd_i}
    /\ dd_groups' = Append(dd_groups, [members |-> {dd_i}, longest |-> dd_i])
    /\ dd_i' = dd_i + 1
    /\ UNCHANGED <<dd_pc, dd_articles, dd_near>>

\* the loop is over: return final_articles
DedupReturn ==
    /\ dd_pc = "loop"
    /\ dd_i > Len(dd_articles)
    /\ dd_pc' = "returned"
    /\ UNCHANGED <<dd_articles, dd_near, dd_i, dd_seen, final_articles, dd_groups>>

\* the caller has the list
DedupDone ==
    /\ dd_pc = "returned"
    /\ dd_pc' = "idle"
    /\ UNCHANGED <<dd_articles, dd_near, dd_i, dd_seen, final_articles, dd_groups>>

\* ------------------------------------------------------------ record deduplicator
\* a company or asset name as written: what it spells (stem) and how: plainly,
\* in upper case, with a diacritic, or followed by a legal suffix ("Inc.")
Forms == {"plain", "upper", "accent", "suffix"}
Names == [stem : 1..NumStems, form : Forms]

\* normalize_text: NFKD + ASCII-fold removes the diacritic, lower() the case,
\* whitespace is collapsed; nothing else is removed
normalize_text(name) ==
    [stem |-> name.stem,
     form |-> IF name.form \in {"upper", "accent"} THEN "plain" ELSE name.form]

\* generate_canonical_key: sha256 of "target|acquirer|asset|date" over the
\* normalized components, one key per such string
generate_canonical_key(deal) ==
    <<normalize_text(deal.target), normalize_text(deal.acquirer),
      normalize_text(deal.asset_focus), deal.date_announced>>

\* date_window_days: int = 3
date_window_days == 3

\* abs((deal1.date_announced - deal2.date_announced).days)
date_diff(deal1, deal2) ==
    IF deal1.date_announced >= deal2.date_announced
    THEN deal1.date_announced - deal2.date_announced
    ELSE deal2.date_announced - deal1.date_announced

SameParties(deal1, deal2) ==
    /\ normalize_text(deal1.target) = normalize_text(deal2.target)
    /\ normalize_text(deal1.acquirer) = normalize_text(deal2.acquirer)
    /\ normalize_text(deal1.asset_focus) = normalize_text(deal2.asset_focus)

_is_fuzzy_match(deal1, deal2) ==
    IF date_diff(deal1, deal2) > date_window_days THEN FALSE
    ELSE SameParties(deal1, deal2)

\* is_duplicate looking at the canonical key only
is_duplicate_exact(deal, existing_deals) ==
    \E e \in 1..Len(existing_deals) :
        existing_deals[e].canonical_key = generate_canonical_key(deal)

\* is_duplicate: an existing deal has the deal's canonical key, or is within
\* the date window with the same normalized parties and asset
is_duplicate(deal, existing_deals) ==
    \/ \E e \in 1..Len(existing_deals) :
           existing_deals[e].canonical_key = generate_canonical_key(deal)
    \/ \E e \in 1..Len(existing_deals) :
           /\ date_diff(deal, existing_deals[e]) <= date_window_days
           /\ SameParties(deal, existing_deals[e])

\* merge_duplicates: the press release is primary; with both or neither a
\* press release the earlier date is, deal1 on equal dates; the merged deal
\* is a copy of primary whose related_urls gained secondary.source_url
merge_duplicates(deal1, deal2) ==
    LET deal1_first ==
            IF deal1.source_url.press /\ ~deal2.source_url.press THEN TRUE
            ELSE IF deal2.source_url.press /\ ~deal1.source_url.press THEN FALSE
            ELSE deal1.date_announced <= deal2.date_announced
        primary == IF deal1_first THEN deal1 ELSE deal2
        secondary == IF deal1_first THEN deal2 ELSE deal1
    IN  [primary EXCEPT !.related_urls = primary.related_urls \cup {secondary.source_url}]

\* the deals tried in a list: the asset and the acquirer are the same, the
\* target is written plainly or in upper case; source_url is set by the call
DealsTried ==
    [target : {n \in Names : n.form \in {"plain", "upper"}},
     acquirer : {[stem |-> 1, form |-> "plain"]},
     asset_focus : {[stem |-> 1, form |-> "plain"]},
     date_announced : 0..MaxDate,
     press : BOOLEAN]

DealLists == UNION {[1..n -> DealsTried] : n \in 1..MaxDeals}

\* the k-th deal of the list as a Deal object: its own source_url, no related
\* URLs, no canonical key yet
DealAt(deals, k) ==
    [target |-> deals[k].target, acquirer |-> deals[k].acquirer,
     asset_focus |-> deals[k].asset_focus, date_announced |-> deals[k].date_announced,
     source_url |-> [id |-> k, press |-> deals[k].press],
     related_urls |-> {}, canonical_key |-> NULL]

\* deal.canonical_key = self.generate_canonical_key(deal)
Keyed(deal) == [deal EXCEPT !.canonical_key = generate_canonical_key(deal)]

\* the first existing deal the merge loop stops at
FirstMatch(deal) ==
    CHOOSE e \in 1..Len(unique_deals) :
        /\ unique_deals[e].canonical_key = deal.canonical_key \/ _is_fuzzy_match(deal, unique_deals[e])
        /\ \A f \in 1..(e - 1) :
               ~(unique_deals[f].canonical_key = deal.canonical_key \/ _is_fuzzy_match(deal, unique_deals[f]))

\* deduplicate(deals) is called
RecCall ==
    /\ rd_pc = "idle"
    /\ rd_pc' = "loop"
    /\ \E deals \in DealLists : rd_deals' = [k \in 1..Len(deals) |-> DealAt(deals, k)]
    /\ rd_k' = 1
    /\ unique_deals' = <<>>

\* not is_duplicate(deal, unique_deals): the deal is appended
RecUnique ==
    /\ rd_pc = "loop"
    /\ rd_k <= Len(rd_deals)
    /\ ~is_duplicate(rd_deals[rd_k], unique_deals)
    /\ unique_deals' = Append(unique_deals, Keyed(rd_deals[rd_k]))
    /\ rd_k' = rd_k + 1
    /\ UNCHANGED <<rd_pc, rd_deals>>

\* is_duplicate: the first matching existing deal is replaced by the merge
RecMerge ==
    /\ rd_pc = "loop"
    /\ rd_k <= Len(rd_deals)
    /\ is_duplicate(rd_deals[rd_k], unique_deals)
    /\ LET deal == Keyed(rd_deals[rd_k])
           e == FirstMatch(deal)
       IN  unique_deals' = [unique_deals EXCEPT ![e] = merge_duplicates(unique_deals[e], deal)]
    /\ rd_k' = rd_k + 1
    /\ UNCHANGED <<rd_pc, rd_deals>>

\* return unique_deals
RecReturn ==
    /\ rd_pc = "loop"
    /\ rd_k > Len(rd_deals)
    /\ rd_pc' = "returned"
    /\ UNCHANGED <<rd_deals, rd_k, unique_deals>>

\* the caller has the list; the locals of the call are gone
RecDone ==
    /\ rd_pc = "returned"
    /\ rd_pc' = "idle"
    /\ rd_deals' = <<>>
    /\ rd_k' = 0
    /\ unique_deals' = <<>>

\* ------------------------------------------------------------ two deals
\* the deals tried as a pair: target and asset in every spelling, with or
\* without a deal value
PairDeals ==
    [target : Names,
     acquirer : {[stem |-> 1, form |-> "plain"]},
     asset_focus : Names,
     date_announced : 0..MaxDate,
     press : BOOLEAN,
     total_deal_value_usd : 0..MaxValue]

\* a deal of the pair as a Deal object with its canonical key
PairDeal(deal, id) ==
    [target |-> deal.target, acquirer |-> deal.acquirer,
     asset_focus |-> deal.asset_focus, date_announced |-> deal.date_announced,
     source_url |-> [id |-> id, press |-> deal.press],
     total_deal_value_usd |-> deal.total_deal_value_usd,
     related_urls |-> {}, canonical_key |-> generate_canonical_key(deal)]

\* two deals get their canonical keys
PairKeys ==
    /\ pk_pc = "idle"
    /\ pk_pc' = "keyed"
    /\ \E deal1, deal2 \in PairDeals :
           /\ pk_deal1' = PairDeal(deal1, 1)
           /\ pk_deal2' = PairDeal(deal2, 2)
    /\ pk_merged' = NULL

\* is_duplicate(deal2, [deal1]) is true: merged = merge_duplicates(deal1, deal2)
PairMerge ==
    /\ pk_pc = "keyed"
    /\ is_duplicate(pk_deal2, <<pk_deal1>>)
    /\ pk_merged' = merge_duplicates(pk_deal1, pk_deal2)
    /\ pk_pc' = "merged"
    /\ UNCHANGED <<pk_deal1, pk_deal2>>

\* is_duplicate(deal2, [deal1]) is false: both deals stay
PairDistinct ==
    /\ pk_pc = "keyed"
    /\ ~is_duplicate(pk_deal2, <<pk_deal1>>)
    /\ pk_pc' = "distinct"
    /\ UNCHANGED <<pk_deal1, pk_deal2, pk_merged>>

\* the pair is dropped
PairDone ==
    /\ pk_pc \in {"merged", "distinct"}
    /\ pk_pc' = "idle"
    /\ pk_deal1' = NULL
    /\ pk_deal2' = NULL
    /\ pk_merged' = NULL

\* ------------------------------------------------------------ observations
\* What the properties need to know about the past, kept beside the program's
\* state and derived from the step just taken.
StepStart == pc = "idle" /\ pc' # "idle"
StepReturn == pc = "done" /\ pc' = "idle"
StepCrash == pc \notin {"idle", "done", "retry_done"} /\ pc' = "idle"
StepWrite == pc' = pc /\ i' = i /\ j' = j /\ db' # db
StepSentBatch == pc = "batch_upsert" /\ pc' = "mark_batch"
StepSentOne == pc = "fallback" /\ pc' = "fallback_mark"
StepRaisedOne == pc = "fallback" /\ j' = j + 1

ObserveCrash ==
    /\ resumed' = IF StepCrash THEN TRUE ELSE IF StepReturn THEN FALSE ELSE resumed
    /\ crash_pending' = IF StepCrash THEN PendingUrls(db)
                        ELSE IF StepReturn THEN {}
                        ELSE crash_pending \cap PendingUrls(db')

ObserveRuns ==
    /\ after_run' = IF StepReturn
                    THEN (IF total_to_process < pending_count THEN "capped" ELSE "full")
                    ELSE IF StepStart \/ StepCrash \/ StepWrite THEN "none"
                    ELSE after_run
    /\ second_of' = IF StepStart /\ ~via_retry' THEN after_run
                    ELSE IF StepStart \/ StepReturn \/ StepCrash THEN "none"
                    ELSE second_of
    /\ prev_count' = IF StepReturn THEN ChromaCount(chroma)
                     ELSE IF StepStart /\ ~via_retry' /\ after_run # "none" THEN prev_count
                     ELSE IF StepStart \/ StepCrash \/ StepWrite THEN 0
                     ELSE prev_count
    /\ reset_urls' = IF StepStart /\ via_retry' THEN FailedUrls(db)
                     ELSE IF StepStart \/ StepReturn \/ StepCrash THEN {}
                     ELSE reset_urls
    /\ ok_urls' = IF StepSentBatch THEN ok_urls \cup UrlsOf(valid_articles)
                  ELSE IF StepSentOne THEN ok_urls \cup {valid_articles[j].url}
                  ELSE IF StepStart \/ StepReturn \/ StepCrash THEN {}
                  ELSE ok_urls
    /\ raised_urls' = IF StepRaisedOne THEN raised_urls \cup {valid_articles[j].url}
                      ELSE IF StepStart \/ StepReturn \/ StepCrash THEN {}
                      ELSE raised_urls

\* ------------------------------------------------------------ specifications
Next ==
    /\ Writer \/ Indexer \/ Crash
    /\ UNCHANGED <<obsVars, ubVars, ixVars, ixObs, buildVars, leafVars, walkVars, siteVars, fetchVars, crawlVars, dedupVars, recordVars, pairVars>>

Spec == Init /\ [][Next]_vars

NextSeq ==
    /\ (pc = "idle" /\ Writer) \/ Indexer \/ Crash
    /\ ObserveCrash
    /\ UNCHANGED <<runObs, ubVars, ixVars, ixObs, buildVars, leafVars, walkVars, siteVars, fetchVars, crawlVars, dedupVars, recordVars, pairVars>>

SpecSeq == Init /\ [][NextSeq]_vars

NextQuiet ==
    /\ (pc = "idle" /\ Writer) \/ Indexer
    /\ ObserveRuns
    /\ UNCHANGED <<crashObs, ubVars, ixVars, ixObs, buildVars, leafVars, walkVars, siteVars, fetchVars, crawlVars, dedupVars, recordVars, pairVars>>

SpecQuiet == Init /\ [][NextQuiet]_vars

\* the ContentCache methods called in any sequence, as calls of several
\* processes that share the database file commit: an indexer's marks with the
\* arguments _process_batch gives them, for rows it read at any earlier time
UrlSets == SUBSET URLs \ {{}}

MarkEmbeddedCall(u, success) ==
    /\ db' = mark_embedded(db, u, success, IF success THEN NULL ELSE "str(e2)")
    /\ UNCHANGED <<chroma, runVars, batVars>>

MarkEmbeddedBatchCall(urls) ==
    /\ db' = mark_embedded_batch(db, urls, TRUE)
    /\ UNCHANGED <<chroma, runVars, batVars>>

ResetFailedCall ==
    /\ db' = reset_failed_to_pending(db)
    /\ UNCHANGED <<chroma, runVars, batVars>>

NextStore ==
    /\ \/ \E u \in URLs, c \in Contents : UpsertArticle(u, c)
       \/ \E u \in URLs, success \in BOOLEAN : MarkEmbeddedCall(u, success)
       \/ \E urls \in UrlSets : MarkEmbeddedBatchCall(urls)
       \/ ResetFailedCall
    /\ UNCHANGED <<obsVars, ubVars, ixVars, ixObs, buildVars, leafVars, walkVars, siteVars, fetchVars, crawlVars, dedupVars, recordVars, pairVars>>

SpecStore == Init /\ [][NextStore]_vars

\* the indexer is a running process: a run that has started keeps taking steps
SpecQuietFair == SpecQuiet /\ WF_vars(pc # "idle" /\ NextQuiet)

InitUpsertBatch ==
    /\ db = [u \in ListUrls |-> NoRow]
    /\ txn = db
    /\ ub_pc = "idle"
    /\ ub_articles = <<>> /\ ub_batch_size = 0
    /\ ub_i = 0 /\ ub_inserted = 0
    /\ InitIndexer
    /\ InitOthers

NextBatch ==
    /\ \/ \E arts \in BatchLists, n \in Sizes : UbCall(arts, n)
       \/ UbInsert
       \/ UbInsertRaises
       \/ UbCommit
       \/ UbFinalCommit
       \/ UbCrash
    /\ UNCHANGED <<chroma, runVars, batVars, obsVars, ixVars, ixObs, buildVars, leafVars, walkVars, siteVars, fetchVars, crawlVars, dedupVars, recordVars, pairVars>>

SpecBatch == InitUpsertBatch /\ [][NextBatch]_vars

NextIndex ==
    /\ \/ IndexOpen
       \/ \E u \in URLs, m \in MetaKinds : MarkCrawled(u, m)
       \/ IndexSave
       \/ IndexReset
       \/ \E ui \in BOOLEAN : NewCrawler(ui)
       \/ \E arts \in SiteResults : CrawlSite(arts)
       \/ CrawlSave
       \/ CrawlReturn
       \/ CrawlCrash
    /\ UNCHANGED <<storeVars, runVars, batVars, obsVars, ubVars, buildVars, leafVars, walkVars, siteVars, fetchVars, crawlVars, dedupVars, recordVars, pairVars>>

SpecIndex == Init /\ [][NextIndex]_vars

NextBuild ==
    /\ \/ BuildStart
       \/ \E arts \in SiteResults : BuildCrawlSite(arts)
       \/ BuildCrawlSave
       \/ BuildSelect
       \/ BuildFetchOk
       \/ BuildFetchNone
       \/ BuildInsert
       \/ BuildReturn
       \/ BuildCrash
    /\ UNCHANGED <<db, runVars, batVars, obsVars, ubVars, leafVars, walkVars, siteVars, fetchVars, crawlVars, dedupVars, recordVars, pairVars>>

SpecBuild == Init /\ [][NextBuild]_vars

NextLeaf ==
    /\ \/ \E f \in SiteFilters, from \in Days, to \in Days, path \in {"requests", "selenium"} :
              from <= to /\ LeafStart(f, from, to, path)
       \/ \E e \in LeafEntries : LeafEntry(e)
       \/ \E e \in LeafEntries : LeafEntryRaises(e)
       \/ LeafReturn
    /\ UNCHANGED <<storeVars, runVars, batVars, obsVars, ubVars, ixVars, ixObs, buildVars, walkVars, siteVars, fetchVars, crawlVars, dedupVars, recordVars, pairVars>>

SpecLeaf == Init /\ [][NextLeaf]_vars

NextWalk ==
    /\ \/ \E max \in 1..MaxFanout : WalkStart(max)
       \/ \E content \in DocContents : FetchDoc(content)
       \/ FetchOverflows
       \/ FetchSubSitemap
       \/ IndexReturns
       \/ WalkReturns
    /\ UNCHANGED <<storeVars, runVars, batVars, obsVars, ubVars, ixVars, ixObs, buildVars, leafVars, siteVars, fetchVars, crawlVars, dedupVars, recordVars, pairVars>>

SpecWalk == Init /\ [][NextWalk]_vars

NextSite ==
    /\ \/ \E sitemap \in BOOLEAN, feeds \in 0..MaxFeeds : SiteStart(sitemap, feeds)
       \/ \E found \in Found : SiteSitemap(found)
       \/ SiteNoSitemap
       \/ SiteFallback
       \/ SiteSkipRss
       \/ \E found \in Found : SiteRssFeed(found)
       \/ SiteRssDone
       \/ SiteReturn
    /\ UNCHANGED <<storeVars, runVars, batVars, obsVars, ubVars, ixVars, ixObs, buildVars, leafVars, walkVars, fetchVars, crawlVars, dedupVars, recordVars, pairVars>>

SpecSite == Init /\ [][NextSite]_vars

NextFetch ==
    /\ \/ \E respect_robots \in BOOLEAN : FetchCall(respect_robots)
       \/ FetchDisallowed
       \/ FetchResponds
       \/ \E failure \in Failures : FetchRetries(failure)
       \/ \E failure \in Failures : FetchGivesUp(failure)
       \/ FetchDone
    /\ UNCHANGED <<storeVars, runVars, batVars, obsVars, ubVars, ixVars, ixObs, buildVars, leafVars, walkVars, siteVars, crawlVars, dedupVars, recordVars, pairVars>>

SpecFetch == Init /\ [][NextFetch]_vars

NextCrawl ==
    /\ \/ \E urls \in UrlLists, workers \in 1..MaxWorkers, per_source \in 1..MaxPerSource,
             checkpoint \in 1..MaxCheckpoint : CrawlStart(urls, workers, per_source, checkpoint)
       \/ \E n \in 1..MaxJobs : WorkerCounts(n)
       \/ \E n \in 1..MaxJobs : WorkerGetsClient(n)
       \/ \E n \in 1..MaxJobs, outcome \in Outcomes : WorkerFetches(n, outcome)
       \/ \E n \in 1..MaxJobs : WorkerPutsClient(n)
       \/ \E n \in 1..MaxJobs : WorkerLeaves(n)
       \/ \E n \in 1..MaxJobs : MainTakesArticle(n)
       \/ \E n \in 1..MaxJobs : MainSkips(n)
       \/ MainFinalCommit
       \/ CrawlExit
    /\ UNCHANGED <<storeVars, runVars, batVars, obsVars, ubVars, ixVars, ixObs, buildVars, leafVars, walkVars, siteVars, fetchVars, dedupVars, recordVars, pairVars>>

SpecCrawl == Init /\ [][NextCrawl]_vars

NextDedup ==
    /\ \/ \E arts \in ArticleLists20, near \in NearRelations : DedupCall(arts, near)
       \/ DedupSkip
       \/ \E longest_idx \in 1..MaxItems : DedupGroup(longest_idx)
       \/ DedupAlone
       \/ DedupReturn
       \/ DedupDone
    /\ UNCHANGED <<storeVars, runVars, batVars, obsVars, ubVars, ixVars, ixObs, buildVars, leafVars, walkVars, siteVars, fetchVars, crawlVars, recordVars, pairVars>>

SpecDedup == Init /\ [][NextDedup]_vars

NextRecords ==
    /\ \/ RecCall
       \/ RecUnique
       \/ RecMerge
       \/ RecReturn
       \/ RecDone
    /\ UNCHANGED <<storeVars, runVars, batVars, obsVars, ubVars, ixVars, ixObs, buildVars, leafVars, walkVars, siteVars, fetchVars, crawlVars, dedupVars, pairVars>>

SpecRecords == Init /\ [][NextRecords]_vars

NextPair ==
    /\ \/ PairKeys
       \/ PairMerge
       \/ PairDistinct
       \/ PairDone
    /\ UNCHANGED <<storeVars, runVars, batVars, obsVars, ubVars, ixVars, ixObs, buildVars, leafVars, walkVars, siteVars, fetchVars, crawlVars, dedupVars, recordVars>>

SpecPair == Init /\ [][NextPair]_vars

\* ------------------------------------------------------------ properties
HasRow(rows, u) == \E k \in 1..Len(rows) : rows[k].url = u

\* get_pending_articles() without a limit returns a row for u, whatever the order
ReturnedPending(d, u) == \A rows \in get_pending_articles(d, 0, 0) : HasRow(rows, u)

\* the step is a successful upsert_article(u, ...) or an upsert_batch holding u
UpsertStep(u) ==
    \/ \E c \in Contents : UpsertArticle(u, c)
    \/ \E arts \in ArticleLists : HasRow(arts, u) /\ UpsertBatch(arts)

\* the step is a mark_embedded / mark_embedded_batch that names u
MarkStep(u) ==
    \/ pc = "validate" /\ i' = i + 1 /\ articles[i].url = u /\ articles[i].content = ""
    \/ pc = "mark_batch" /\ pc' = "loop" /\ u \in UrlsOf(valid_articles)
    \/ pc = "fallback_mark" /\ j' = j + 1 /\ valid_articles[j].url = u
    \/ pc = "fallback" /\ j' = j + 1 /\ valid_articles[j].url = u

\* the step is reset_failed_to_pending
ResetStep == pc = "idle" /\ pc' \in {"retry_call", "retry_done"}

\* C1: after an upsert of a URL, whatever its record was before, the URL is a row
\* of get_pending_articles() (no limit), and it stays one until a mark_embedded
\* names that URL.
UpsertThenPending ==
    [][\A u \in URLs :
          /\ UpsertStep(u) => ReturnedPending(db', u)
          /\ (ReturnedPending(db, u) /\ ~ReturnedPending(db', u)) => MarkStep(u)]_vars

\* a record that the indexer had embedded (its document is in the collection)
\* was upserted again with other content while a run is in progress
UpsertThenPendingWitness ==
    \E u \in URLs : /\ db[u].embedding_status = "pending"
                    /\ chroma[u] # NoDoc /\ chroma[u] # db[u].content
                    /\ ReturnedPending(db, u)
                    /\ pc = "fallback"

\* C2 as stated: a resumed run never sends to the collection a record whose
\* status is embedded, and when it returns every record that was pending at the
\* crash has been processed.
SendsOnlyUnembedded ==
    /\ pc = "batch_upsert" =>
          \A u \in UrlsOf(valid_articles) : db[u].embedding_status # "embedded"
    /\ pc = "fallback" => db[valid_articles[j].url].embedding_status # "embedded"

ResumeAsStated ==
    /\ resumed => SendsOnlyUnembedded
    /\ (resumed /\ pc = "done") => crash_pending = {}

\* C2 amended: the same, for a resumed run that max_articles does not cut short.
ResumeUncapped ==
    /\ resumed => SendsOnlyUnembedded
    /\ (resumed /\ pc = "done" /\ total_to_process = pending_count) => crash_pending = {}

\* a resumed run returns after a crash that left two records pending, one of them
\* already in the collection (the crash fell between the upsert and the mark)
ResumeWitness ==
    /\ resumed /\ pc = "done" /\ total_to_process = pending_count
    /\ processed = NumUrls
    /\ succeeded >= 1

QuiescentSync ==
    pc = "idle" =>
        \A u \in URLs : (chroma[u] # NoDoc) <=> (db[u].embedding_status = "embedded")

\* C5 as stated: a run that directly follows a completed run, with the store
\* untouched in between, returns at once with processed = 0 and leaves the
\* collection as it was.
SecondRunIdle(kinds) ==
    second_of \in kinds =>
        /\ pc = "done"
        /\ processed = 0 /\ succeeded = 0 /\ failed = 0
        /\ ChromaCount(chroma) = prev_count

RerunAsStated == SecondRunIdle({"full", "capped"})

\* C5 amended: the same, when max_articles did not cut the first run short.
RerunIdempotent == SecondRunIdle({"full"})

\* the second run returns; the first one had put documents in the collection
RerunWitness == second_of = "full" /\ pc = "done" /\ prev_count = NumUrls

FallbackIsolates ==
    (pc = "loop" /\ batch_raised) =>
        \A k \in 1..Len(valid_articles) :
            LET u == valid_articles[k].url IN
            /\ u \in ok_urls \cup raised_urls
            /\ db[u].embedding_status = "failed" <=> u \in raised_urls
            /\ u \in ok_urls => /\ db[u].embedding_status = "embedded"
                                /\ chroma[u] = valid_articles[k].content

\* a batch of two went through the retry: one raised, its sibling is embedded
FallbackWitness ==
    /\ pc = "loop" /\ batch_raised /\ Len(valid_articles) >= 2
    /\ \E u, v \in UrlsOf(valid_articles) :
          /\ u \in raised_urls /\ db[u].embedding_status = "failed"
          /\ v \in ok_urls /\ db[v].embedding_status = "embedded"


\* rows a crash must leave in the table: those of the groups of ub_batch_size
\* articles that the loop has gone through completely
CompletedGroups ==
    {k \in 1..(ub_batch_size * (ub_i \div ub_batch_size)) : ub_articles[k].url = k}

\* C8: a crash during upsert_batch leaves in the table exactly the records of the
\* groups of n completed before it, so at most n inserted records are lost.
CrashKeepsCompletedGroups ==
    ub_pc = "crashed" =>
        /\ Present(db) = CompletedGroups
        /\ ub_inserted - Cardinality(Present(db)) <= ub_batch_size
\* C9: a URL marked on the index stays known, also to a URLIndex that loads the
\* file after a save(), until reset(); right after reset() no URL is known.
MarkedStaysKnown ==
    /\ \A u \in marked : is_crawled(crawled_urls, u)
    /\ ix_last = "reset" => \A u \in URLs : ~is_crawled(crawled_urls, u)

\* C10: with the index enabled, crawl_all_sites collects no URL that the index
\* held when the run started.
KnownUrlsExcluded ==
    (use_index /\ cpc # "idle") =>
        \A k \in 1..Len(all_articles) : all_articles[k] \notin index_at_start

\* a run with the index returns a new URL although a site also offered it a URL
\* that an earlier run had marked and saved
KnownUrlsExcludedWitness ==
    /\ use_index /\ cpc = "done"
    /\ all_articles # <<>>
    /\ offered \cap index_at_start # {}
\* C11: while crawl_all_sites runs with the index, the URLs it has marked are in
\* the index file, except those of the one turn of the site loop in flight: a
\* crash loses no more than that turn's marks.
CrawlProgressDurable ==
    (use_index /\ cpc \in {"sites", "save"}) =>
        \A k \in 1..Len(all_articles) :
            all_articles[k] \in load(index_file) \cup site_new
\* C12: when build_cache is not running, every URL the Crawl Index file holds
\* has its article in the collection; the code keeps no per-URL record of a drop,
\* only the count skipped[0], so there is no other way for a URL to be accounted
\* for.
NoSilentLoss ==
    bpc \in {"idle", "done"} =>
        \A u \in load(index_file) : article_exists(chroma, u)
\* C13: the walk of a leaf sitemap returns exactly the URLs of the entries that
\* match no block pattern, match an allow pattern if the site has any, and have
\* no parseable timestamp or one within [fromDate, toDate].
LeafEmitsExactly ==
    lf_pc = "returned" => lf_articles = lf_expected
\* C14 as stated: during one walk no more than max_subsitemaps sub-sitemap
\* documents are fetched, however the sitemap indexes are nested.
FanoutCappedPerWalk == wk_fetches <= wk_max

\* C14 amended: of the sub-sitemaps one sitemap-index document lists, no more
\* than max_subsitemaps are fetched.
FanoutCappedPerIndex ==
    \A k \in 1..Len(wk_stack) : wk_stack[k].fetched <= wk_max

\* a sitemap index listing more sub-sitemaps than max_subsitemaps has had
\* max_subsitemaps of them fetched and none left to fetch
FanoutCappedWitness ==
    \E k \in 1..Len(wk_stack) :
        /\ wk_stack[k].total_sitemaps > wk_max
        /\ wk_stack[k].fetched = wk_max
        /\ wk_stack[k].todo = <<>>

RssOnlyAfterEmptyWalk ==
    Len(cs_walk) > 0 =>
        /\ cs_requests = 0
        /\ \A k \in 1..Len(cs_articles) : cs_articles[k].via = "sitemap"

\* a site with RSS feeds whose sitemap walk found something has been crawled
RssOnlyAfterEmptyWalkWitness ==
    /\ cs_pc = "done"
    /\ cs_feeds > 0
    /\ Len(cs_walk) > 0
    /\ Len(cs_articles) > 0
\* C18: one WebClient.fetch call sends at most 3 requests, waits an
\* exponentially computed time before each retry, and sends exactly one
\* request when a response has a permanent 4xx status.
FetchRetryPolicy ==
    /\ Len(wf_outcomes) <= StopAfterAttempt
    /\ \A k \in 1..Len(wf_slept) : wf_slept[k] = wait_exponential(k)
    /\ (\E k \in 1..Len(wf_outcomes) : wf_outcomes[k] = "4xx") => Len(wf_outcomes) = 1
\* C17: a failure while fetching one URL becomes the value None, the URL is
\* counted as skipped, nothing is raised out of fetch_article, and the run goes
\* on to take every remaining URL and to store every article that was fetched.
FetchFailuresSkipped ==
    /\ \A n \in Jobs : cr_failed[n] => cr_result[n] = "None"
    /\ cr_pc = "done" =>
           /\ \A n \in Jobs : cr_at[n] = "consumed"
           /\ skipped_count = Cardinality({n \in Jobs : cr_failed[n]})
           /\ cr_stored = {n \in Jobs : ~cr_failed[n]}

\* a run has ended in which a URL failed and a URL submitted after it was
\* fetched and stored
FetchFailuresSkippedWitness ==
    /\ cr_pc = "done"
    /\ \E n, k \in Jobs : n < k /\ cr_failed[n] /\ k \in cr_stored

\* C19: during the parallel fetch of crawl_and_store, no source ever has more
\* than max_concurrent_per_source fetches in flight.
PerSourceBounded ==
    cr_pc = "running" =>
        \A s \in Sources : Cardinality(InFlight(s)) <= max_concurrent_per_source
Returned(p) == \E k \in 1..Len(final_articles) : final_articles[k] = p

\* C20: of two articles of the input with identical title and content the
\* collapser returns exactly one, whatever else the list holds.
OneOfIdenticalPair ==
    dd_pc = "returned" =>
        \A p, q \in 1..Len(dd_articles) :
            (p < q /\ dd_articles[p] = dd_articles[q]) =>
                /\ ~(Returned(p) /\ Returned(q))
                /\ Returned(p) \/ Returned(q)
\* C21: the longest article of every group the collapser formed is in the
\* output, and no article was resolved in more than one group.
GroupsKeepLongest ==
    dd_pc = "returned" =>
        /\ \A g \in 1..Len(dd_groups) : Returned(dd_groups[g].longest)
        /\ \A g, h \in 1..Len(dd_groups) :
               g # h => dd_groups[g].members \cap dd_groups[h].members = {}
\* C22: the set of articles the collapser returns is the same for every
\* order of the same input articles.
OrderIndependent ==
    dd_pc = "returned" =>
        /\ {dd_articles[final_articles[k]] : k \in 1..Len(final_articles)}
               \in Retained(dd_articles, dd_near)
        /\ \A other \in Reorderings(dd_articles) :
               Retained(other, dd_near) = Retained(dd_articles, dd_near)
\* C23: two records with equal normalized target, acquirer and asset come
\* back from deduplicate as one record when their dates are at most 3 days
\* apart and as two records otherwise; is_duplicate answers accordingly.
WindowDecidesMerge ==
    (rd_pc = "returned" /\ Len(rd_deals) = 2 /\ SameParties(rd_deals[1], rd_deals[2])) =>
        LET within == date_diff(rd_deals[1], rd_deals[2]) <= date_window_days
        IN  /\ Len(unique_deals) = (IF within THEN 1 ELSE 2)
            /\ is_duplicate(rd_deals[2], <<Keyed(rd_deals[1])>>) = within

\* both cases of C23 have been returned: a pair 1 or 2 days apart merged ...
WindowDecidesMergeWitness ==
    /\ rd_pc = "returned"
    /\ Len(rd_deals) = 2
    /\ SameParties(rd_deals[1], rd_deals[2])
    /\ date_diff(rd_deals[1], rd_deals[2]) \in {1, 2}
    /\ rd_deals[1].target # rd_deals[2].target
    /\ Len(unique_deals) = 1

\* C25: after deduplicate, the source URL of every input record is the
\* source_url or one of the related_urls of some output record.
EveryUrlRetained ==
    rd_pc = "returned" =>
        \A k \in 1..Len(rd_deals) : \E e \in 1..Len(unique_deals) :
            \/ unique_deals[e].source_url = rd_deals[k].source_url
            \/ rd_deals[k].source_url \in unique_deals[e].related_urls

\* C28: no two records of the output of deduplicate are duplicates of each
\* other, by canonical key or by equal parties within the date window.
OutputHasNoDuplicates ==
    rd_pc = "returned" =>
        \A e, f \in 1..Len(unique_deals) :
            e # f =>
                /\ unique_deals[e].canonical_key # unique_deals[f].canonical_key
                /\ ~_is_fuzzy_match(unique_deals[e], unique_deals[f])
\* the order of C24: a is to survive b
Preferred(a, b) ==
    IF a.source_url.press # b.source_url.press THEN a.source_url.press
    ELSE IF (a.total_deal_value_usd > 0) # (b.total_deal_value_usd > 0) THEN a.total_deal_value_usd > 0
    ELSE IF a.total_deal_value_usd # b.total_deal_value_usd THEN a.total_deal_value_usd > b.total_deal_value_usd
    ELSE a.date_announced < b.date_announced

\* C24: of two duplicates the survivor is the press release, else the record
\* with a deal value, else the one with the larger value, else the earlier.
SurvivorByPolicy ==
    pk_pc = "merged" =>
        /\ Preferred(pk_deal1, pk_deal2) => pk_merged.source_url = pk_deal1.source_url
        /\ Preferred(pk_deal2, pk_deal1) => pk_merged.source_url = pk_deal2.source_url

\* a name up to letter case, diacritics and a legal suffix
Entity(name) == name.stem

\* C26: the canonical key is a function of the normalized target, acquirer,
\* asset and the date; deals with different assets get different keys, and
\* deals whose entities differ only by case, diacritics or a legal suffix get
\* the same key.
KeyIgnoresSpelling ==
    pk_pc \in {"keyed", "merged", "distinct"} =>
        /\ pk_deal1.canonical_key = generate_canonical_key(pk_deal1)
        /\ normalize_text(pk_deal1.asset_focus) # normalize_text(pk_deal2.asset_focus)
               => pk_deal1.canonical_key # pk_deal2.canonical_key
        /\ (/\ Entity(pk_deal1.target) = Entity(pk_deal2.target)
            /\ Entity(pk_deal1.acquirer) = Entity(pk_deal2.acquirer)
            /\ pk_deal1.asset_focus = pk_deal2.asset_focus
            /\ pk_deal1.date_announced = pk_deal2.date_announced)
               => pk_deal1.canonical_key = pk_deal2.canonical_key
\* C27: once the writer and the indexer have both finished, a record that is
\* embedded has a vector entry computed from its latest content; content
\* written while the indexer held the record in a batch is not lost.
RecrawlNotLost ==
    pc = "idle" =>
        \A u \in URLs : db[u].embedding_status = "embedded" => chroma[u] = db[u].content
\* C29: with no writer during the run and max_articles not set, a run of
\* process_pending_articles reaches its return, and there no record is pending
\* and processed = succeeded + failed = the pending count read at the start.
RunDrainsPending ==
    /\ [](pc = "done" /\ max_articles = 0 =>
             /\ PendingCount(db) = 0
             /\ processed = succeeded + failed
             /\ processed = pending_count)
    /\ (pc = "loop" ~> pc = "done")

\* a run without a cap has returned after one record succeeded and one failed
RunDrainsPendingWitness ==
    /\ pc = "done" /\ max_articles = 0
    /\ pending_count = 2 /\ succeeded = 1 /\ failed = 1
\* C30: in every state of the Content Store a pending record has null
\* embedded_at and null error_message, and an embedded record has null
\* error_message.
StatusFieldsAgree ==
    \A u \in URLs :
        /\ db[u].embedding_status = "pending" =>
               db[u].embedded_at = NULL /\ db[u].error_message = NULL
        /\ db[u].embedding_status = "embedded" => db[u].error_message = NULL
====
